---- MODULE Spec2Model ----
(***************************************************************************)
(* Semantic search service of the bartender gateway: the search router     *)
(* (validation, HTTP status), SemanticSearchService (result caches, expiry *)
(* timers, embedding call, catalog load, ranking) and clearCache; then the *)
(* chat flow: ChatController.sendMessage, MCPClient, TieredOllamaRouter.   *)
(*                                                                         *)
(* Time is counted in ticks of 300 seconds.  Similarities are kept exact:  *)
(* a cosine dot/sqrt(nn) is the pair (dot, nn), compared by cross          *)
(* multiplication, and a reported similarity is the integer                *)
(* Math.round(sim * 1000), i.e. tenths of a percent.                       *)
(***************************************************************************)
EXTENDS Integers, Sequences, FiniteSets, Bags, TLC

(***************************************************************************)
(* JavaScript values of a request body.  s is the value's rendering in a   *)
(* template literal, (nan, n10) its ToNumber in tenths.                    *)
(***************************************************************************)
JsNum(k) == [t |-> "number", s |-> ToString(k), nan |-> FALSE, n10 |-> 10 * k]

JsFrac(k10, txt) == [t |-> "number", s |-> txt, nan |-> FALSE, n10 |-> k10]

JsStr(txt) == [t |-> "string", s |-> txt, nan |-> (txt # ""), n10 |-> 0]

JsNumStr(k) == [t |-> "string", s |-> ToString(k), nan |-> FALSE, n10 |-> 10 * k]

JsUndefined == [t |-> "undefined", s |-> "undefined", nan |-> TRUE, n10 |-> 0]

Truthy(v) ==
    CASE v.t = "undefined" -> FALSE
      [] v.t = "string" -> v.s # ""
      [] OTHER -> ~v.nan /\ v.n10 # 0

\* v < k and v > k of JavaScript: ToNumber(v) compared, false when it is NaN.
JsLess(v, k) == ~v.nan /\ v.n10 < 10 * k

JsGreater(v, k) == ~v.nan /\ v.n10 > 10 * k

\* ToIntegerOrInfinity(v), as Array.prototype.slice applies it to its end.
JsToInteger(v) ==
    IF v.nan THEN 0
    ELSE IF v.n10 >= 0 THEN v.n10 \div 10 ELSE -((-v.n10) \div 10)

(***************************************************************************)
(* A filter is undefined, or an object: its key/value pairs in the order   *)
(* the body gives them.                                                    *)
(***************************************************************************)
NoFilter == [def |-> FALSE, kv |-> <<>>]

FilterOf(kv) == [def |-> TRUE, kv |-> kv]

Undef == [def |-> FALSE, s |-> ""]

RECURSIVE PairsGet(_, _, _)
PairsGet(kv, k, i) ==
    IF i = 0 THEN Undef
    ELSE IF kv[i][1] = k THEN [def |-> TRUE, s |-> kv[i][2]]
    ELSE PairsGet(kv, k, i - 1)

\* filter.<k>
FilterGet(filter, k) == PairsGet(filter.kv, k, Len(filter.kv))

\* r.metadata.<k>
MetaGet(md, k) == IF k \in DOMAIN md THEN [def |-> TRUE, s |-> md[k]] ELSE Undef

RECURSIVE JsonPairs(_, _)
JsonPairs(kv, i) ==
    IF i > Len(kv) THEN ""
    ELSE (IF i > 1 THEN "," ELSE "")
         \o "\"" \o kv[i][1] \o "\":\"" \o kv[i][2] \o "\""
         \o JsonPairs(kv, i + 1)

\* JSON.stringify(filter || {})
JsonStringify(filter) == "{" \o JsonPairs(filter.kv, 1) \o "}"

(***************************************************************************)
(* The router's validation: the error message, or "ok".                    *)
(***************************************************************************)
DefaultLimit == 10

MinQueryLength == 3

MinLimit == 1

MaxLimit == 50

\* const { query, limit = 10, filter } = req.body
LimitOf(body) == IF body.limit.t = "undefined" THEN JsNum(DefaultLimit) ELSE body.limit

ValidateNoLimitCheck(query, limit) ==
    IF ~Truthy(query) \/ query.t # "string"
    THEN "Query parameter is required and must be a string"
    ELSE IF Len(query.s) < MinQueryLength
    THEN "Query must be at least 3 characters long"
    ELSE "ok"

ValidateOffByOne(query, limit) ==
    IF ~Truthy(query) \/ query.t # "string"
    THEN "Query parameter is required and must be a string"
    ELSE IF Len(query.s) <= MinQueryLength
    THEN "Query must be at least 3 characters long"
    ELSE IF JsLess(limit, MinLimit) \/ JsGreater(limit, MaxLimit - 1)
    THEN "Limit must be between 1 and 50"
    ELSE "ok"

Validate(query, limit) ==
    IF ~Truthy(query) \/ query.t # "string"
    THEN "Query parameter is required and must be a string"
    ELSE IF Len(query.s) < MinQueryLength
    THEN "Query must be at least 3 characters long"
    ELSE IF JsLess(limit, MinLimit) \/ JsGreater(limit, MaxLimit)
    THEN "Limit must be between 1 and 50"
    ELSE "ok"

(***************************************************************************)
(* The cache key.                                                          *)
(***************************************************************************)
CacheKey(query, limit, filter) ==
    query.s \o "-" \o limit.s \o "-" \o JsonStringify(filter)

(***************************************************************************)
(* Ranking.                                                                *)
(***************************************************************************)
RECURSIVE CosLoop(_, _, _, _)
CosLoop(vecA, vecB, i, acc) ==
    IF i > Len(vecA) THEN acc
    ELSE IF i > Len(vecB)
    THEN CosLoop(vecA, vecB, i + 1, [acc EXCEPT !.nan = TRUE])
    ELSE CosLoop(vecA, vecB, i + 1,
                 [acc EXCEPT !.dot = @ + vecA[i] * vecB[i],
                             !.normA = @ + vecA[i] * vecA[i],
                             !.normB = @ + vecB[i] * vecB[i]])

NaN == [nan |-> TRUE, dot |-> 0, nn |-> 0]

\* dotProduct / (Math.sqrt(normA) * Math.sqrt(normB)); 0/0 and undefined
\* operands give NaN.
cosineSimilarity(vecA, vecB) ==
    LET acc == CosLoop(vecA, vecB, 1, [nan |-> FALSE, dot |-> 0, normA |-> 0, normB |-> 0])
    IN  IF acc.nan \/ acc.normA * acc.normB = 0 THEN NaN
        ELSE [nan |-> FALSE, dot |-> acc.dot, nn |-> acc.normA * acc.normB]

\* sign(x) * x^2 * n: orders x * sqrt(n)
SignedSquare(x, n) == IF x >= 0 THEN x * x * n ELSE -(x * x * n)

\* the sign of a.similarity - b.similarity; 0 when it is NaN
SimCompare(a, b) ==
    IF a.nan \/ b.nan THEN 0
    ELSE LET l == SignedSquare(a.dot, b.nn)
             r == SignedSquare(b.dot, a.nn)
         IN  IF l > r THEN 1 ELSE IF l < r THEN -1 ELSE 0

\* Math.round(y) for 2y = 2000 * dot / sqrt(nn): the r with 2r-1 <= 2y < 2r+1
RECURSIVE RoundSearch(_, _, _, _)
RoundSearch(dot, nn, lo, hi) ==
    IF lo = hi THEN lo
    ELSE LET mid == (lo + hi + 1) \div 2
         IN  IF SignedSquare(2 * mid - 1, nn) <= SignedSquare(2000 * dot, 1)
             THEN RoundSearch(dot, nn, mid, hi)
             ELSE RoundSearch(dot, nn, lo, mid - 1)

\* Math.round(similarity * 1000), the reported similarity in tenths of a percent
RoundSimilarity(sim) ==
    IF sim.nan THEN [nan |-> TRUE, x10 |-> 0]
    ELSE [nan |-> FALSE, x10 |-> RoundSearch(sim.dot, sim.nn, -1000, 1000)]

(***************************************************************************)
(* Filters, as searchRecipes and searchIngredients apply them to an        *)
(* entry's metadata md.                                                    *)
(***************************************************************************)
RecipeFilterPass(filter, md) ==
    IF ~filter.def THEN TRUE
    ELSE LET category == FilterGet(filter, "category")
             alcoholic == FilterGet(filter, "alcoholic")
         IN  /\ ~(category.def /\ category.s # "" /\ MetaGet(md, "category") # category)
             /\ ~(alcoholic.def /\ MetaGet(md, "alcoholic") # alcoholic)

IngredientFilterPass(filter, md) ==
    IF ~filter.def THEN TRUE
    ELSE LET category == FilterGet(filter, "category")
             family == FilterGet(filter, "family")
         IN  /\ ~(category.def /\ category.s # "" /\ MetaGet(md, "category") # category)
             /\ ~(family.def /\ family.s # "" /\ MetaGet(md, "family") # family)

FilterPass(coll, filter, md) ==
    IF coll = "recipes" THEN RecipeFilterPass(filter, md)
    ELSE IngredientFilterPass(filter, md)

RECURSIVE SelectSeq2(_, _, _, _)
\* results.filter(...)
SelectSeq2(coll, filter, list, i) ==
    IF i > Len(list) THEN <<>>
    ELSE (IF FilterPass(coll, filter, list[i].metadata) THEN <<list[i]>> ELSE <<>>)
         \o SelectSeq2(coll, filter, list, i + 1)

(***************************************************************************)
(* results.sort((a, b) => b.similarity - a.similarity): a stable sort,     *)
(* descending.  A comparator that answers NaN is treated as answering 0;   *)
(* when that makes it inconsistent (x = NaN = y but x < y) the order of    *)
(* the outcome is implementation-defined: any permutation.                 *)
(***************************************************************************)
RECURSIVE InsertSorted(_, _)
InsertSorted(sorted, x) ==
    IF sorted = <<>> THEN <<x>>
    ELSE LET last == sorted[Len(sorted)]
         IN  IF SimCompare(x.similarity, last.similarity) > 0
             THEN Append(InsertSorted(SubSeq(sorted, 1, Len(sorted) - 1), x), last)
             ELSE Append(sorted, x)

RECURSIVE StableSort(_, _)
StableSort(list, n) ==
    IF n = 0 THEN <<>> ELSE InsertSorted(StableSort(list, n - 1), list[n])

ConsistentComparator(list) ==
    \A i, j, k \in 1..Len(list) :
        (/\ SimCompare(list[i].similarity, list[j].similarity) = 0
         /\ SimCompare(list[j].similarity, list[k].similarity) = 0)
        => SimCompare(list[i].similarity, list[k].similarity) = 0

SortOutcomes(list) ==
    IF ConsistentComparator(list) THEN {StableSort(list, Len(list))}
    ELSE {[i \in 1..Len(list) |-> list[p[i]]] : p \in Permutations(1..Len(list))}

\* results.slice(0, limit)
Slice(list, limit) ==
    LET k == JsToInteger(limit)
        end == IF k < 0 THEN (IF Len(list) + k < 0 THEN 0 ELSE Len(list) + k)
               ELSE IF k > Len(list) THEN Len(list) ELSE k
    IN  SubSeq(list, 1, end)

RecipeFields == {"category", "glass", "alcoholic", "ingredientCount"}

IngredientFields == {"category", "family", "usageCount"}

\* one formatted SearchResult
Format(coll, r) ==
    LET fields == IF coll = "recipes" THEN RecipeFields ELSE IngredientFields
    IN  [id |-> r.id,
         name |-> MetaGet(r.metadata, "name"),
         similarity |-> RoundSimilarity(r.similarity),
         metadata |-> [k \in fields \cap DOMAIN r.metadata |-> r.metadata[k]]]

RankNeedsBest(coll, queryEmbedding, catalog, limit, filter) ==
    LET scored == [i \in 1..Len(catalog) |->
                     [id |-> catalog[i].id,
                      metadata |-> catalog[i].metadata,
                      similarity |-> cosineSimilarity(queryEmbedding, catalog[i].embedding)]]
        filtered == SelectSeq2(coll, filter, scored, 1)
    IN  {LET top == Slice(sorted, limit)
         IN  [i \in 1..Len(top) |-> Format(coll, top[i])] :
           sorted \in {x \in SortOutcomes(filtered) : Len(x) > 0}}

\* the miss path of searchRecipes / searchIngredients after the two awaits:
\* the result sequences it can produce
Rank(coll, queryEmbedding, catalog, limit, filter) ==
    LET scored == [i \in 1..Len(catalog) |->
                     [id |-> catalog[i].id,
                      metadata |-> catalog[i].metadata,
                      similarity |-> cosineSimilarity(queryEmbedding, catalog[i].embedding)]]
        filtered == SelectSeq2(coll, filter, scored, 1)
    IN  {LET top == Slice(sorted, limit)
         IN  [i \in 1..Len(top) |-> Format(coll, top[i])] : sorted \in SortOutcomes(filtered)}

(***************************************************************************)
(* The collaborators: the embedding provider's answer for a text and the   *)
(* catalog files read by loadVectorDb.                                     *)
(***************************************************************************)
Collections == {"recipes", "ingredients"}

Embedding(text) == IF text = "gin" THEN <<1, 0>> ELSE <<1, 1>>

RecipesDb ==
    << [id |-> "r1", embedding |-> <<0, 1>>,
        metadata |-> [name |-> "Lemonade", category |-> "Soft Drink",
                      alcoholic |-> "Non alcoholic"]],
       [id |-> "r2", embedding |-> <<1, 0>>,
        metadata |-> [name |-> "Gin Tonic", category |-> "Cocktail",
                      alcoholic |-> "Alcoholic", ingredientCount |-> 2]] >>

IngredientsDb ==
    << [id |-> "i1", embedding |-> <<1, 1>>,
        metadata |-> [name |-> "Tonic Water", category |-> "Mixers"]],
       [id |-> "i2", embedding |-> <<1, 0>>,
        metadata |-> [name |-> "Gin", category |-> "Spirits",
                      family |-> "Gin Family", usageCount |-> 9]] >>

VectorDb(coll) == IF coll = "recipes" THEN RecipesDb ELSE IngredientsDb

(***************************************************************************)
(* Bounds.                                                                 *)
(***************************************************************************)
\* the last tick of the clock
MaxTime == 2

\* search requests in flight at once
MaxRequests == 2

\* cacheTimeout = 5 * 60 * 1000 ms, in ticks of 300 s
cacheTimeout == 1

\* the bodies clients post to the search endpoints
SvcBodies ==
    { [query |-> JsStr("gin"), limit |-> JsNum(1), filter |-> NoFilter],
      [query |-> JsStr("ab"), limit |-> JsNum(1), filter |-> NoFilter],
      [query |-> JsNum(123), limit |-> JsNum(1), filter |-> NoFilter],
      [query |-> JsStr("gin"), limit |-> JsNum(51), filter |-> NoFilter] }

\* a posted body as the handler reads it: the destructured fields, the
\* validation's verdict and the search's cacheKey
Request(coll, body) ==
    [coll |-> coll, query |-> body.query, limit |-> LimitOf(body),
     filter |-> body.filter,
     verdict |-> Validate(body.query, LimitOf(body)),
     cacheKey |-> CacheKey(body.query, LimitOf(body), body.filter)]

SvcRequests == {Request(coll, body) : coll \in Collections, body \in SvcBodies}

(***************************************************************************)
(* State.                                                                  *)
(*   now              the clock, in ticks                                  *)
(*   recipeCache,                                                          *)
(*   ingredientCache  key -> [val: the cached results, at: when stored,    *)
(*                    by: the request that stored them]                    *)
(*   timers           the pending setTimeout callbacks                     *)
(*   reqs             the search requests in flight, a bag: a request      *)
(*                    suspended at an await has no identity but its state  *)
(*   event            what the last step did that a caller or a            *)
(*                    collaborator observes: a response, a call of the     *)
(*                    embedding provider, a read of the catalog            *)
(*   lastStore        history: per cache key, the latest store since the   *)
(*                    last clearCache, while younger than the TTL          *)
(*   cleared          history: the keys a clearCache removed and no        *)
(*                    request has asked for since                          *)
(*   answered         history: per request answered 200 so far, the result *)
(*                    sequences it was given                               *)
(*   probe            the call under test of the function specifications   *)
(***************************************************************************)
VARIABLES now, recipeCache, ingredientCache, timers, reqs, event,
          lastStore, cleared, answered, probe

vars == <<now, recipeCache, ingredientCache, timers, reqs, event,
          lastStore, cleared, answered, probe>>

EmptyMap == [k \in {} |-> 0]

Cache(coll) == IF coll = "recipes" THEN recipeCache ELSE ingredientCache

NoRequest == [coll |-> "recipes", query |-> JsUndefined, limit |-> JsUndefined,
              filter |-> NoFilter, verdict |-> "", cacheKey |-> ""]

NoEvent == [kind |-> "none", status |-> 0, error |-> "", req |-> NoRequest,
            results |-> <<>>, fromCache |-> FALSE, age |-> 0, log |-> <<>>,
            owed |-> FALSE, owedVal |-> <<>>, mustMiss |-> FALSE]

NoProbe == [op |-> "none"]

Init ==
    /\ now = 0
    /\ recipeCache = EmptyMap
    /\ ingredientCache = EmptyMap
    /\ timers = {}
    /\ reqs = EmptyBag
    /\ event = NoEvent
    /\ lastStore = EmptyMap
    /\ cleared = {}
    /\ answered = EmptyMap
    /\ probe = NoProbe

\* map with key k set to v
MapSet(m, k, v) == [x \in DOMAIN m \cup {k} |-> IF x = k THEN v ELSE m[x]]

\* map with key k deleted
MapDelete(m, k) == [x \in DOMAIN m \ {k} |-> m[x]]

SetCache(coll, m) ==
    IF coll = "recipes"
    THEN recipeCache' = m /\ UNCHANGED ingredientCache
    ELSE ingredientCache' = m /\ UNCHANGED recipeCache

\* history: request q has been answered 200 with results
Answer(q, results) ==
    MapSet(answered, q, (IF q \in DOMAIN answered THEN answered[q] ELSE {}) \cup {results})

\* res.status(status).json({error, ...})
ErrorResponse(status, error, q, log) ==
    [kind |-> "response", status |-> status, error |-> error, req |-> q,
     results |-> <<>>, fromCache |-> FALSE, age |-> 0, log |-> log,
     owed |-> FALSE, owedVal |-> <<>>, mustMiss |-> FALSE]

(***************************************************************************)
(* The search endpoints and the service's search operations.               *)
(***************************************************************************)
ScheduleExpiryRecipesOnly(coll, cacheKey) ==
    timers \cup {[coll |-> "recipes", key |-> cacheKey, due |-> now + cacheTimeout]}

\* setTimeout(() => cache.delete(cacheKey), this.cacheTimeout)
ScheduleExpiry(coll, cacheKey) ==
    timers \cup {[coll |-> coll, key |-> cacheKey, due |-> now + cacheTimeout]}

MissStartLoadsFirst(q) ==
    [pc |-> "loading", req |-> q, queryEmbedding |-> Embedding(q.query.s),
     log |-> <<"cacheMiss", "loadCall">>]

\* a search past its cache check: generateEmbedding(query) is called and awaited
MissStart(q) ==
    [pc |-> "embedding", req |-> q, queryEmbedding |-> <<>>,
     log |-> <<"cacheMiss", "embedCall">>]

PostHitRenews(q) ==
    LET ck == <<q.coll, q.cacheKey>>
        owed == ck \in DOMAIN lastStore /\ now - lastStore[ck].at < cacheTimeout
        owedVal == IF owed THEN lastStore[ck].val ELSE <<>>
    IN  IF q.verdict # "ok"
        THEN /\ event' = ErrorResponse(400, q.verdict, q, <<>>)
             /\ UNCHANGED <<now, recipeCache, ingredientCache, timers, reqs,
                            lastStore, cleared, answered, probe>>
        ELSE IF q.cacheKey \in DOMAIN Cache(q.coll)
        THEN /\ event' = [kind |-> "response", status |-> 200, error |-> "", req |-> q,
                          results |-> Cache(q.coll)[q.cacheKey].val,
                          fromCache |-> TRUE,
                          age |-> now - Cache(q.coll)[q.cacheKey].at,
                          log |-> <<"cacheHit", "return">>,
                          owed |-> owed, owedVal |-> owedVal,
                          mustMiss |-> ck \in cleared]
             /\ cleared' = cleared \ {ck}
             /\ answered' = Answer(q, Cache(q.coll)[q.cacheKey].val)
             /\ timers' = ScheduleExpiry(q.coll, q.cacheKey)
             /\ UNCHANGED <<now, recipeCache, ingredientCache, reqs, lastStore, probe>>
        ELSE /\ BagCardinality(reqs) < MaxRequests
             /\ reqs' = reqs (+) SetToBag({MissStart(q)})
             /\ event' = [kind |-> "embedCall", status |-> 0, error |-> "", req |-> q,
                          results |-> <<>>, fromCache |-> FALSE, age |-> 0,
                          log |-> MissStart(q).log,
                          owed |-> owed, owedVal |-> owedVal,
                          mustMiss |-> ck \in cleared]
             /\ cleared' = cleared \ {ck}
             /\ UNCHANGED <<now, recipeCache, ingredientCache, timers,
                            lastStore, answered, probe>>

\* POST /recipes, POST /ingredients: validation, then searchRecipes or
\* searchIngredients up to its first await (the cache check and, on a miss,
\* the call of the embedding provider)
Post(q) ==
    LET ck == <<q.coll, q.cacheKey>>
        owed == ck \in DOMAIN lastStore /\ now - lastStore[ck].at < cacheTimeout
        owedVal == IF owed THEN lastStore[ck].val ELSE <<>>
    IN  IF q.verdict # "ok"
        THEN /\ event' = ErrorResponse(400, q.verdict, q, <<>>)
             /\ UNCHANGED <<now, recipeCache, ingredientCache, timers, reqs,
                            lastStore, cleared, answered, probe>>
        ELSE IF q.cacheKey \in DOMAIN Cache(q.coll)
        THEN /\ event' = [kind |-> "response", status |-> 200, error |-> "", req |-> q,
                          results |-> Cache(q.coll)[q.cacheKey].val,
                          fromCache |-> TRUE,
                          age |-> now - Cache(q.coll)[q.cacheKey].at,
                          log |-> <<"cacheHit", "return">>,
                          owed |-> owed, owedVal |-> owedVal,
                          mustMiss |-> ck \in cleared]
             /\ cleared' = cleared \ {ck}
             /\ answered' = Answer(q, Cache(q.coll)[q.cacheKey].val)
             /\ UNCHANGED <<now, recipeCache, ingredientCache, timers, reqs,
                            lastStore, probe>>
        ELSE /\ BagCardinality(reqs) < MaxRequests
             /\ reqs' = reqs (+) SetToBag({MissStart(q)})
             /\ event' = [kind |-> "embedCall", status |-> 0, error |-> "", req |-> q,
                          results |-> <<>>, fromCache |-> FALSE, age |-> 0,
                          log |-> MissStart(q).log,
                          owed |-> owed, owedVal |-> owedVal,
                          mustMiss |-> ck \in cleared]
             /\ cleared' = cleared \ {ck}
             /\ UNCHANGED <<now, recipeCache, ingredientCache, timers,
                            lastStore, answered, probe>>

\* generateEmbedding resolves; loadVectorDb is called
EmbedOk(p) ==
    LET next == [p EXCEPT !.pc = "loading",
                          !.queryEmbedding = Embedding(p.req.query.s),
                          !.log = @ \o <<"embedOk", "loadCall">>]
    IN  /\ BagIn(p, reqs)
        /\ p.pc = "embedding"
        /\ reqs' = (reqs (-) SetToBag({p})) (+) SetToBag({next})
        /\ event' = [NoEvent EXCEPT !.kind = "loadCall", !.req = p.req, !.log = next.log]
        /\ UNCHANGED <<now, recipeCache, ingredientCache, timers,
                       lastStore, cleared, answered, probe>>

EmbedFailRetried(p) ==
    /\ BagIn(p, reqs)
    /\ p.pc = "embedding"
    /\ IF Len(p.log) < 4
       THEN /\ reqs' = (reqs (-) SetToBag({p}))
                         (+) SetToBag({[p EXCEPT !.log = @ \o <<"embedFail", "embedCall">>]})
            /\ event' = [NoEvent EXCEPT !.kind = "embedCall", !.req = p.req,
                                        !.log = p.log \o <<"embedFail", "embedCall">>]
       ELSE /\ reqs' = reqs (-) SetToBag({p})
            /\ event' = ErrorResponse(500, "Failed to generate embedding", p.req,
                                      p.log \o <<"embedFail">>)
    /\ UNCHANGED <<now, recipeCache, ingredientCache, timers, lastStore, cleared,
                   answered, probe>>

\* generateEmbedding throws "Failed to generate embedding"; the router answers 500
EmbedFail(p) ==
    /\ BagIn(p, reqs)
    /\ p.pc = "embedding"
    /\ event' = ErrorResponse(500, "Failed to generate embedding", p.req,
                              p.log \o <<"embedFail">>)
    /\ reqs' = reqs (-) SetToBag({p})
    /\ UNCHANGED <<now, recipeCache, ingredientCache, timers, lastStore, cleared,
                   answered, probe>>

LoadOkKeepFirst(p) ==
    LET q == p.req
    IN  /\ BagIn(p, reqs)
        /\ p.pc = "loading"
        /\ \E results \in Rank(q.coll, p.queryEmbedding, VectorDb(q.coll), q.limit, q.filter) :
              /\ IF q.cacheKey \in DOMAIN Cache(q.coll)
                 THEN UNCHANGED <<recipeCache, ingredientCache, timers, lastStore>>
                 ELSE /\ SetCache(q.coll, MapSet(Cache(q.coll), q.cacheKey,
                                                 [val |-> results, at |-> now, by |-> q]))
                      /\ timers' = ScheduleExpiry(q.coll, q.cacheKey)
                      /\ lastStore' = MapSet(lastStore, <<q.coll, q.cacheKey>>,
                                             [val |-> results, at |-> now, by |-> q])
              /\ event' = [kind |-> "response", status |-> 200, error |-> "", req |-> q,
                           results |-> results, fromCache |-> FALSE, age |-> 0,
                           log |-> p.log \o <<"loadOk", "rank", "store", "return">>,
                           owed |-> FALSE, owedVal |-> <<>>, mustMiss |-> FALSE]
              /\ answered' = Answer(q, results)
        /\ reqs' = reqs (-) SetToBag({p})
        /\ UNCHANGED <<now, cleared, probe>>

\* loadVectorDb resolves: score, filter, sort, slice, format, cache, return
LoadOk(p) ==
    LET q == p.req
    IN  /\ BagIn(p, reqs)
        /\ p.pc = "loading"
        /\ \E results \in Rank(q.coll, p.queryEmbedding, VectorDb(q.coll), q.limit, q.filter) :
              /\ SetCache(q.coll, MapSet(Cache(q.coll), q.cacheKey,
                                         [val |-> results, at |-> now, by |-> q]))
              /\ timers' = ScheduleExpiry(q.coll, q.cacheKey)
              /\ lastStore' = MapSet(lastStore, <<q.coll, q.cacheKey>>,
                                     [val |-> results, at |-> now, by |-> q])
              /\ event' = [kind |-> "response", status |-> 200, error |-> "", req |-> q,
                           results |-> results, fromCache |-> FALSE, age |-> 0,
                           log |-> p.log \o <<"loadOk", "rank", "store", "return">>,
                           owed |-> FALSE, owedVal |-> <<>>, mustMiss |-> FALSE]
              /\ answered' = Answer(q, results)
        /\ reqs' = reqs (-) SetToBag({p})
        /\ UNCHANGED <<now, cleared, probe>>

LoadFailSwallowed(p) ==
    /\ BagIn(p, reqs)
    /\ p.pc = "loading"
    /\ event' = [ErrorResponse(200, "", p.req, p.log \o <<"loadFail">>)
                   EXCEPT !.results = <<>>]
    /\ SetCache(p.req.coll, MapSet(Cache(p.req.coll), p.req.cacheKey,
                                   [val |-> <<>>, at |-> now, by |-> p.req]))
    /\ reqs' = reqs (-) SetToBag({p})
    /\ UNCHANGED <<now, timers, lastStore, cleared, answered, probe>>

\* loadVectorDb throws "Failed to load <collection> database"; the router answers 500
LoadFail(p) ==
    /\ BagIn(p, reqs)
    /\ p.pc = "loading"
    /\ event' = ErrorResponse(500, "Failed to load " \o p.req.coll \o " database", p.req,
                              p.log \o <<"loadFail">>)
    /\ reqs' = reqs (-) SetToBag({p})
    /\ UNCHANGED <<now, recipeCache, ingredientCache, timers, lastStore, cleared,
                   answered, probe>>

ClearCacheRecipesOnly ==
    /\ recipeCache' = EmptyMap
    /\ lastStore' = EmptyMap
    /\ cleared' = cleared \cup ({"recipes"} \X DOMAIN recipeCache)
    /\ event' = [NoEvent EXCEPT !.kind = "cleared", !.status = 200]
    /\ UNCHANGED <<now, ingredientCache, timers, reqs, answered, probe>>

\* POST /cache/clear: clearCache() empties both maps (pending timers and
\* searches stay), then the router answers "Cache cleared successfully"
ClearCache ==
    /\ recipeCache' = EmptyMap
    /\ ingredientCache' = EmptyMap
    /\ lastStore' = EmptyMap
    /\ cleared' = cleared \cup ({"recipes"} \X DOMAIN recipeCache)
                          \cup ({"ingredients"} \X DOMAIN ingredientCache)
    /\ event' = [NoEvent EXCEPT !.kind = "cleared", !.status = 200]
    /\ UNCHANGED <<now, timers, reqs, answered, probe>>

TimerFireKeepsEntry(t) ==
    /\ t \in timers
    /\ t.due <= now
    /\ timers' = timers \ {t}
    /\ event' = NoEvent
    /\ UNCHANGED <<now, recipeCache, ingredientCache, reqs, lastStore, cleared, answered,
                   probe>>

\* an expiry timer's callback: cache.delete(cacheKey)
TimerFire(t) ==
    /\ t \in timers
    /\ t.due <= now
    /\ SetCache(t.coll, MapDelete(Cache(t.coll), t.key))
    /\ timers' = timers \ {t}
    /\ event' = NoEvent
    /\ UNCHANGED <<now, reqs, lastStore, cleared, answered, probe>>

\* the clock advances; a due timer's callback runs before it does
Tick ==
    /\ now < MaxTime
    /\ \A t \in timers : t.due > now
    /\ now' = now + 1
    /\ event' = NoEvent
    /\ lastStore' = [ck \in {x \in DOMAIN lastStore : now + 1 - lastStore[x].at < cacheTimeout}
                       |-> lastStore[ck]]
    /\ UNCHANGED <<recipeCache, ingredientCache, timers, reqs, cleared, answered, probe>>

Next ==
    \/ \E q \in SvcRequests : Post(q)
    \/ \E p \in BagToSet(reqs) : EmbedOk(p)
    \/ \E p \in BagToSet(reqs) : EmbedFail(p)
    \/ \E p \in BagToSet(reqs) : LoadOk(p)
    \/ \E p \in BagToSet(reqs) : LoadFail(p)
    \/ ClearCache
    \/ \E t \in timers : TimerFire(t)
    \/ Tick

Spec == Init /\ [][Next]_vars

\* What the runtime guarantees: time passes and a due timer callback runs.
\* Nothing makes the embedding provider or the file system answer: the
\* awaits of generateEmbedding and loadVectorDb carry no timeout.
FairSpec ==
    /\ Spec
    /\ WF_vars(Tick)
    /\ WF_vars(\E t \in timers : TimerFire(t))

(***************************************************************************)
(* The same service under requests whose cache keys meet: a query text     *)
(* that ends like a limit, and a limit that is no number.                  *)
(***************************************************************************)
KeyBodies ==
    { [query |-> JsStr("gin-1"), limit |-> JsNum(2), filter |-> NoFilter],
      [query |-> JsStr("gin"), limit |-> JsStr("1-2"), filter |-> NoFilter] }

KeyRequests == {Request("recipes", body) : body \in KeyBodies}

KeyNext ==
    \/ \E q \in KeyRequests : Post(q)
    \/ \E p \in BagToSet(reqs) : EmbedOk(p)
    \/ \E p \in BagToSet(reqs) : EmbedFail(p)
    \/ \E p \in BagToSet(reqs) : LoadOk(p)
    \/ \E p \in BagToSet(reqs) : LoadFail(p)
    \/ ClearCache
    \/ \E t \in timers : TimerFire(t)
    \/ Tick

KeySpec == Init /\ [][KeyNext]_vars

(***************************************************************************)
(* The same service under two requests that differ only in the order of    *)
(* their filter's keys.                                                    *)
(***************************************************************************)
OrderBodies ==
    { [query |-> JsStr("gin"), limit |-> JsNum(1),
       filter |-> FilterOf(<< <<"category", "Cocktail">>, <<"alcoholic", "Alcoholic">> >>)],
      [query |-> JsStr("gin"), limit |-> JsNum(1),
       filter |-> FilterOf(<< <<"alcoholic", "Alcoholic">>, <<"category", "Cocktail">> >>)] }

OrderRequests == {Request("recipes", body) : body \in OrderBodies}

OrderNext ==
    \/ \E q \in OrderRequests : Post(q)
    \/ \E p \in BagToSet(reqs) : EmbedOk(p)
    \/ \E p \in BagToSet(reqs) : EmbedFail(p)
    \/ \E p \in BagToSet(reqs) : LoadOk(p)
    \/ \E p \in BagToSet(reqs) : LoadFail(p)
    \/ ClearCache
    \/ \E t \in timers : TimerFire(t)
    \/ Tick

OrderSpec == Init /\ [][OrderNext]_vars

(***************************************************************************)
(* Properties of the result cache.                                         *)
(***************************************************************************)
Hit == event.kind = "response" /\ event.fromCache

C2_RepeatWithinTtlHits ==
    event.owed => (Hit /\ event.results = event.owedVal)

\* C3: the first request for a key after a clearCache that removed it calls
\* the embedding provider again, also when searches were in flight at the
\* clearCache.
C3_ClearForcesRecompute == event.mustMiss => event.kind = "embedCall"

(***************************************************************************)
(* Properties of a request's course.                                       *)
(***************************************************************************)
\* the query is not a string of at least 3 characters, or the limit is a
\* number below 1 or above 50
InvalidInput(q) ==
    \/ ~(q.query.t = "string" /\ Len(q.query.s) >= 3)
    \/ (~q.limit.nan /\ (q.limit.n10 < 10 \/ q.limit.n10 > 500))

\* C4: a request whose query is not a string of at least 3 characters, or
\* whose limit is below 1 or above 50, is answered 400 in the step that
\* receives it: it causes no embedding call and no catalog load, and the
\* caches, the timers and the searches in flight are left as they were.
C4_InvalidRequestRejected ==
    [][(event'.kind \in {"response", "embedCall", "loadCall"} /\ InvalidInput(event'.req))
       => /\ event'.kind = "response"
          /\ event'.status = 400
          /\ event'.log = <<>>
          /\ UNCHANGED <<recipeCache, ingredientCache, timers, reqs>>]_vars

\* a 400 is sent while the recipe cache holds an entry and a search is in flight
C4_RejectedWhileBusy ==
    /\ event.kind = "response"
    /\ event.status = 400
    /\ InvalidInput(event.req)
    /\ DOMAIN recipeCache # {}
    /\ reqs # EmptyBag

LastStep(log) == IF log = <<>> THEN "" ELSE log[Len(log)]

\* C7: when the embedding call or the catalog load of a search fails, the
\* request is answered 500 without any result, and no cache entry is added
\* or changed.
C7_FailureFailsWhole ==
    [][(event'.kind = "response" /\ LastStep(event'.log) \in {"embedFail", "loadFail"})
       => /\ event'.status = 500
          /\ event'.results = <<>>
          /\ UNCHANGED <<recipeCache, ingredientCache, timers>>]_vars

\* a catalog load fails while both caches hold an entry
C7_LoadFailedWithWarmCache ==
    /\ event.kind = "response"
    /\ event.status = 500
    /\ LastStep(event.log) = "loadFail"
    /\ DOMAIN recipeCache # {}
    /\ DOMAIN ingredientCache # {}

MissSteps == <<"cacheMiss", "embedCall", "embedOk", "loadCall", "loadOk",
               "rank", "store", "return">>

\* the step writes key k of collection coll's cache
Written(coll, k, old, new) ==
    k \in DOMAIN new /\ (k \notin DOMAIN old \/ old[k] # new[k])

StoresResponse(coll, new) ==
    /\ event'.kind = "response"
    /\ event'.status = 200
    /\ ~event'.fromCache
    /\ event'.req.coll = coll
    /\ event'.log = MissSteps
    /\ new[event'.req.cacheKey].val = event'.results

\* C8: on a miss the steps are: embedding call, embedding obtained, catalog
\* load, ranking, store, return.  The catalog is read only by a search whose
\* embedding call has succeeded, and a cache is written only in the step
\* that ends a search's ranking and returns the stored result.
C8_MissStepOrder ==
    [][/\ (event'.kind = "loadCall"
             => event'.log = SubSeq(MissSteps, 1, 4))
       /\ (event'.kind = "response" /\ event'.status = 200 /\ ~event'.fromCache
             => event'.log = MissSteps)
       /\ \A k \in DOMAIN recipeCache' :
             Written("recipes", k, recipeCache, recipeCache')
                => StoresResponse("recipes", recipeCache') /\ k = event'.req.cacheKey
       /\ \A k \in DOMAIN ingredientCache' :
             Written("ingredients", k, ingredientCache, ingredientCache')
                => StoresResponse("ingredients", ingredientCache') /\ k = event'.req.cacheKey]_vars

\* a miss has run to its end: the result returned is the entry just stored
C8_MissCompleted ==
    /\ event.kind = "response"
    /\ event.status = 200
    /\ ~event.fromCache
    /\ event.log = MissSteps
    /\ event.req.cacheKey \in DOMAIN Cache(event.req.coll)
    /\ Cache(event.req.coll)[event.req.cacheKey].val = event.results
    /\ event.results # <<>>

(***************************************************************************)
(* The router's validation on its own: one posted body, validated once.    *)
(***************************************************************************)
ProbeQueries ==
    {JsUndefined, JsNum(123), JsStr(""), JsStr("ab"), JsStr("abc"), JsStr("abcd")}

ProbeLimits ==
    {JsUndefined, JsNum(-1), JsNum(0), JsNum(1), JsNum(2), JsNum(49), JsNum(50),
     JsNum(51), JsFrac(5, "0.5"), JsFrac(25, "2.5"), JsFrac(505, "50.5"),
     JsStr("abc"), JsStr(""), JsNumStr(10), JsNumStr(51)}

Quiet ==
    /\ now = 0
    /\ recipeCache = EmptyMap
    /\ ingredientCache = EmptyMap
    /\ timers = {}
    /\ reqs = EmptyBag
    /\ event = NoEvent
    /\ lastStore = EmptyMap
    /\ cleared = {}
    /\ answered = EmptyMap

ValidationInit ==
    /\ Quiet
    /\ probe \in {[op |-> "validate", coll |-> coll, query |-> query, limit |-> limit,
                   done |-> FALSE, verdict |-> ""] :
                     coll \in Collections, query \in ProbeQueries, limit \in ProbeLimits}

\* lines 19-38 and 75-94 of the router: destructuring with the default
\* limit, then the three checks
ValidateProbe ==
    /\ probe.op = "validate"
    /\ ~probe.done
    /\ probe' = [probe EXCEPT !.done = TRUE,
                              !.verdict = Request(probe.coll,
                                                  [query |-> probe.query,
                                                   limit |-> probe.limit,
                                                   filter |-> NoFilter]).verdict]
    /\ UNCHANGED <<now, recipeCache, ingredientCache, timers, reqs, event,
                   lastStore, cleared, answered>>

ValidationNext == ValidateProbe

ValidationSpec == ValidationInit /\ [][ValidationNext]_vars

Validated == probe.op = "validate" /\ probe.done

Accepted == Validated /\ probe.verdict = "ok"

IsWhole(v, k) == v.t = "number" /\ ~v.nan /\ v.n10 = 10 * k

\* C5: limit 0 and limit 51 fail validation; limit 1 and limit 50 pass when
\* the query is valid; a query of 2 characters fails and a query of 3
\* characters passes (with a limit that is a whole number in 1..50).
C5_ValidationBoundaries ==
    Validated =>
        /\ (IsWhole(probe.limit, 0) \/ IsWhole(probe.limit, 51) => ~Accepted)
        /\ (probe.query.t = "string" /\ Len(probe.query.s) = 2 => ~Accepted)
        /\ (/\ probe.query.t = "string"
            /\ Len(probe.query.s) >= 3
            /\ (IsWhole(probe.limit, 1) \/ IsWhole(probe.limit, 50))
            => Accepted)
        /\ (/\ probe.query.t = "string"
            /\ Len(probe.query.s) = 3
            /\ \E k \in 1..50 : IsWhole(probe.limit, k)
            => Accepted)

\* the two upper boundaries at once: a 3-character query with limit 50 passes
C5_AcceptedAtBoundaries ==
    /\ Accepted
    /\ Len(probe.query.s) = 3
    /\ IsWhole(probe.limit, 50)

\* a lower boundary: limit 0 with a valid query is refused for its limit
C5_RejectedAtZero ==
    /\ Validated
    /\ IsWhole(probe.limit, 0)
    /\ probe.verdict = "Limit must be between 1 and 50"

\* C6: on both endpoints a request whose limit is not an integer in 1..50
\* (a fraction such as 2.5, a non-numeric value) is rejected.
C6_NonIntegerLimitRejected ==
    (Validated /\ ~(\E k \in 1..50 : IsWhole(LimitOf(probe), k))) => ~Accepted

(***************************************************************************)
(* The ranking on its own: one call of the miss path's computation on a    *)
(* catalog, a query embedding, a limit and a filter.                       *)
(***************************************************************************)
\* entries per catalog
MaxCatalog == 3

RecipePool ==
    { [id |-> "a", embedding |-> <<1, 1>>,
       metadata |-> [name |-> "Gin Fizz", category |-> "Cocktail",
                     alcoholic |-> "Alcoholic", glass |-> "Highball"]],
      [id |-> "b", embedding |-> <<1, 0>>,
       metadata |-> [name |-> "Virgin Mule", category |-> "Cocktail",
                     alcoholic |-> "Non alcoholic", glass |-> "Mug"]],
      [id |-> "z", embedding |-> <<0, 0>>,
       metadata |-> [name |-> "Draft", category |-> "Shot",
                     alcoholic |-> "Alcoholic"]],
      [id |-> "n", embedding |-> <<-1, 0>>,
       metadata |-> [name |-> "Espresso", category |-> "Coffee"]] }

IngredientPool ==
    { [id |-> "a", embedding |-> <<1, 1>>,
       metadata |-> [name |-> "Gin", category |-> "Spirits",
                     family |-> "Gin Family"]],
      [id |-> "b", embedding |-> <<1, 0>>,
       metadata |-> [name |-> "Vodka", category |-> "Spirits",
                     family |-> "Vodka Family"]],
      [id |-> "z", embedding |-> <<0, 0>>,
       metadata |-> [name |-> "Soda", category |-> "Mixers"]],
      [id |-> "n", embedding |-> <<-1, 0>>,
       metadata |-> [name |-> "Lime", category |-> "Fruit",
                     family |-> "Citrus"]] }

Pool(coll) == IF coll = "recipes" THEN RecipePool ELSE IngredientPool

\* the catalogs: up to MaxCatalog distinct entries, in any file order
Catalogs(coll) ==
    UNION {{c \in [1..n -> Pool(coll)] : \A i, j \in 1..n : c[i] = c[j] => i = j} :
             n \in 0..MaxCatalog}

ProbeEmbeddings == {<<1, 0>>, <<0, 1>>, <<0, 0>>, <<2, 1>>}

RankLimits == {JsNum(1), JsNum(2), JsNum(50), JsFrac(25, "2.5"), JsStr("abc")}

ProbeFilters ==
    {NoFilter, FilterOf(<<>>),
     FilterOf(<< <<"category", "Cocktail">> >>),
     FilterOf(<< <<"category", "">> >>),
     FilterOf(<< <<"alcoholic", "Alcoholic">> >>),
     FilterOf(<< <<"alcoholic", "">> >>),
     FilterOf(<< <<"family", "Gin Family">> >>),
     FilterOf(<< <<"glass", "Highball">> >>),
     FilterOf(<< <<"category", "Cocktail">>, <<"alcoholic", "Alcoholic">> >>),
     FilterOf(<< <<"category", "Spirits">>, <<"family", "">> >>)}

RankInit ==
    /\ Quiet
    /\ probe \in {[op |-> "rank", coll |-> coll, queryEmbedding |-> e,
                   catalog |-> c, limit |-> limit, filter |-> filter,
                   done |-> FALSE, results |-> <<>>] :
                     coll \in {"recipes"}, e \in ProbeEmbeddings,
                     c \in Catalogs("recipes"), limit \in RankLimits,
                     filter \in ProbeFilters}
                 \cup
                 {[op |-> "rank", coll |-> coll, queryEmbedding |-> e,
                   catalog |-> c, limit |-> limit, filter |-> filter,
                   done |-> FALSE, results |-> <<>>] :
                     coll \in {"ingredients"}, e \in ProbeEmbeddings,
                     c \in Catalogs("ingredients"), limit \in RankLimits,
                     filter \in ProbeFilters}

\* the computation of searchRecipes / searchIngredients between the catalog
\* load and the cache store
RankProbe ==
    /\ probe.op = "rank"
    /\ ~probe.done
    /\ \E results \in Rank(probe.coll, probe.queryEmbedding, probe.catalog,
                           probe.limit, probe.filter) :
           probe' = [probe EXCEPT !.done = TRUE, !.results = results]
    /\ UNCHANGED <<now, recipeCache, ingredientCache, timers, reqs, event,
                   lastStore, cleared, answered>>

RankNext == RankProbe

RankSpec == RankInit /\ [][RankNext]_vars

Ranked == probe.op = "rank" /\ probe.done

\* x >= y of JavaScript on two reported similarities: false when one is NaN
SimilarityGeq(x, y) == ~x.nan /\ ~y.nan /\ x.x10 >= y.x10

\* C9: every returned result sequence is sorted by similarity, descending:
\* results[i].similarity >= results[i+1].similarity for every valid i.
C9_SortedDescending ==
    Ranked => \A i \in 1..(Len(probe.results) - 1) :
                 SimilarityGeq(probe.results[i].similarity,
                               probe.results[i + 1].similarity)

\* C10: every returned result's metadata carries every key of the supplied
\* filter with exactly the filter's value, whatever the keys and values.
C10_ResultsMatchFilter ==
    (Ranked /\ probe.filter.def) =>
        \A i \in 1..Len(probe.results) : \A j \in 1..Len(probe.filter.kv) :
            MetaGet(probe.results[i].metadata, probe.filter.kv[j][1])
              = [def |-> TRUE, s |-> probe.filter.kv[j][2]]

\* an entry matches a filter when it carries every attribute the filter
\* names, with exactly the filter's value
Matches(md, filter) ==
    filter.def => \A j \in 1..Len(filter.kv) :
                     MetaGet(md, filter.kv[j][1]) = [def |-> TRUE, s |-> filter.kv[j][2]]

\* the catalog entries of the probe that match its filter
Matching == {i \in 1..Len(probe.catalog) : Matches(probe.catalog[i].metadata, probe.filter)}

\* C11: the number of returned results is at most limit and at most the
\* number of catalog entries that match the filter.
C11_AtMostLimitAndMatches ==
    Ranked =>
        /\ (~probe.limit.nan => 10 * Len(probe.results) <= probe.limit.n10)
        /\ Len(probe.results) <= Cardinality(Matching)

\* the similarity of catalog entry i to the query, as it is reported
Reported(i) == RoundSimilarity(cosineSimilarity(probe.queryEmbedding,
                                                probe.catalog[i].embedding))

\* C12: the result is the top-limit of the filtered set: there are
\* min(limit, number of matching entries) results, and no matching entry
\* left out has a strictly higher similarity than a returned one.
C12_TopOfFiltered ==
    Ranked =>
        /\ (~probe.limit.nan =>
               10 * Len(probe.results)
                 = (IF probe.limit.n10 < 10 * Cardinality(Matching)
                    THEN probe.limit.n10 ELSE 10 * Cardinality(Matching)))
        /\ \A i \in Matching :
              (\A k \in 1..Len(probe.results) : probe.results[k].id # probe.catalog[i].id)
              => \A k \in 1..Len(probe.results) :
                    ~(/\ ~Reported(i).nan
                      /\ ~probe.results[k].similarity.nan
                      /\ Reported(i).x10 > probe.results[k].similarity.x10)

(***************************************************************************)
(* Properties of the cache as seen by callers.                             *)
(***************************************************************************)
\* what a service without cache computes for request q
Recomputed(q) == Rank(q.coll, Embedding(q.query.s), VectorDb(q.coll), q.limit, q.filter)

\* C13: the result cache is transparent: every result returned to an
\* accepted request is the one a service that recomputes every request
\* returns for it.
C13_CacheTransparent ==
    (event.kind = "response" /\ event.status = 200) => event.results \in Recomputed(event.req)

\* C14: with the catalog and the embeddings fixed, all executions of the
\* same search return the same result sequence, whether the cache was left
\* intact or cleared between them.
C14_SameSearchSameResult ==
    \A q \in DOMAIN answered : Cardinality(answered[q]) = 1

\* the attribute/value pairs of a filter, whatever their order
PairSet(filter) == {filter.kv[j] : j \in 1..Len(filter.kv)}

\* requests that agree on collection, query, limit and the filter's pairs
SameSearch(q, r) ==
    /\ q.coll = r.coll
    /\ q.query = r.query
    /\ q.limit = r.limit
    /\ q.filter.def = r.filter.def
    /\ PairSet(q.filter) = PairSet(r.filter)

\* C15: two requests that agree on collection, query and limit and whose
\* filters hold the same attribute/value pairs, in whatever order, have the
\* same cache key, so that the second is a hit while the entry of the first
\* is in the cache.
C15_FilterOrderIrrelevant ==
    event.kind = "embedCall"
      => \A r \in OrderRequests :
            SameSearch(event.req, r) => r.cacheKey \notin DOMAIN Cache(r.coll)

(***************************************************************************)
(* Properties of concurrent searches.                                      *)
(***************************************************************************)
CacheAfter(coll) == IF coll = "recipes" THEN recipeCache' ELSE ingredientCache'

\* C16: concurrent misses on one key are neither cancelled nor coalesced:
\* a miss starts a computation of its own whatever is in flight, a search
\* leaves only with its own response, and a search that completes writes
\* its result with the current time over whatever the key held, the other
\* keys being left alone: the key's one entry is that of the last writer.
C16_LastWriteWins ==
    [][/\ (event'.kind = "embedCall"
             => reqs' = reqs (+) SetToBag({MissStart(event'.req)}))
       /\ (BagCardinality(reqs') < BagCardinality(reqs)
             => /\ event'.kind = "response"
                /\ BagCardinality(reqs') = BagCardinality(reqs) - 1
                /\ \E p \in BagToSet(reqs) :
                      p.req = event'.req /\ reqs' = reqs (-) SetToBag({p}))
       /\ (event'.kind = "response" /\ event'.status = 200 /\ ~event'.fromCache
             => /\ CacheAfter(event'.req.coll)
                     = MapSet(Cache(event'.req.coll), event'.req.cacheKey,
                              [val |-> event'.results, at |-> now, by |-> event'.req]))]_vars

\* a search completes and overwrites the entry an earlier search stored for
\* its key, while a third search for the same key is still in flight
C16_OverwriteWhileRacing ==
    /\ event.kind = "response"
    /\ event.status = 200
    /\ ~event.fromCache
    /\ \E p \in BagToSet(reqs) : p.req = event.req
    /\ \E t \in timers : /\ t.coll = event.req.coll
                         /\ t.key = event.req.cacheKey
                         /\ t.due < now + cacheTimeout
    /\ Cache(event.req.coll)[event.req.cacheKey].at = now

\* C17: every search that has called the embedding provider is eventually
\* answered, with a result or with a failure, even when the provider or
\* the catalog source never responds.
C17_EverySearchCompletes ==
    \A q \in SvcRequests :
        (event.kind = "embedCall" /\ event.req = q)
          ~> (event.kind = "response" /\ event.req = q)

(***************************************************************************)
(* Properties of clearCache.                                               *)
(***************************************************************************)
\* C18: clearCache can be called in every state and does not fail; right
\* after it returns both the recipe cache and the ingredient cache are
\* empty, whatever the age of the entries they held.
C18_ClearEmptiesBoth ==
    /\ ENABLED ClearCache
    /\ event.kind = "cleared"
         => /\ event.status = 200
            /\ recipeCache = EmptyMap
            /\ ingredientCache = EmptyMap

\* a clear has removed a fresh entry of one collection and an entry of the
\* other whose expiry timer is due
C18_ClearedYoungAndOld ==
    /\ event.kind = "cleared"
    /\ \E t, u \in timers :
          /\ t.coll # u.coll
          /\ <<t.coll, t.key>> \in cleared
          /\ <<u.coll, u.key>> \in cleared
          /\ t.due > now
          /\ u.due <= now

(***************************************************************************)
(* getHealth and GET /health on their own: one call, given what the        *)
(* provider's model listing and the two catalog loads answer.              *)
(***************************************************************************)
embeddingModel == "nomic-embed-text"

\* name.includes(sub)
Includes(name, sub) ==
    \E i \in 1..(Len(name) - Len(sub) + 1) : SubSeq(name, i, i + Len(sub) - 1) = sub

\* the outcomes of this.ollama.list()
Listings ==
    { [ok |-> FALSE, error |-> "fetch failed", models |-> {}],
      [ok |-> TRUE, error |-> "", models |-> {}],
      [ok |-> TRUE, error |-> "", models |-> {"llama3:8b"}],
      [ok |-> TRUE, error |-> "", models |-> {"nomic-embed-text:latest"}],
      [ok |-> TRUE, error |-> "", models |-> {"llama3:8b", "nomic-embed-text:latest"}] }

\* the outcomes of loadVectorDb(coll)
LoadOutcomes(coll) ==
    { [ok |-> FALSE, error |-> "Failed to load " \o coll \o " database", db |-> <<>>],
      [ok |-> TRUE, error |-> "", db |-> <<>>],
      [ok |-> TRUE, error |-> "", db |-> VectorDb(coll)] }

\* a cache as a search leaves it: empty, or holding one result
WarmCaches(coll) ==
    LET q == Request(coll, [query |-> JsStr("gin"), limit |-> JsNum(1), filter |-> NoFilter])
    IN  {EmptyMap} \cup
        {MapSet(EmptyMap, q.cacheKey, [val |-> results, at |-> 0, by |-> q]) :
           results \in Rank(coll, Embedding("gin"), VectorDb(coll), q.limit, q.filter)}

HealthInit ==
    /\ now = 0
    /\ recipeCache \in WarmCaches("recipes")
    /\ ingredientCache \in WarmCaches("ingredients")
    /\ timers = {[coll |-> "recipes", key |-> k, due |-> cacheTimeout] : k \in DOMAIN recipeCache}
                \cup {[coll |-> "ingredients", key |-> k, due |-> cacheTimeout] :
                        k \in DOMAIN ingredientCache}
    /\ reqs = EmptyBag
    /\ event = NoEvent
    /\ lastStore = EmptyMap
    /\ cleared = {}
    /\ answered = EmptyMap
    /\ probe \in {[op |-> "health", listing |-> l, recipes |-> r, ingredients |-> i,
                   done |-> FALSE, status |-> "", statusCode |-> 0, health |-> <<>>] :
                     l \in Listings, r \in LoadOutcomes("recipes"),
                     i \in LoadOutcomes("ingredients")}

Unhealthy(message) ==
    [status |-> "unhealthy", error |-> message, connected |-> FALSE, available |-> FALSE,
     recipes |-> 0, ingredients |-> 0, recipeQueries |-> 0, ingredientQueries |-> 0]

getHealthIgnoreListing(listing, recipes, ingredients) ==
    IF ~recipes.ok THEN Unhealthy(recipes.error)
    ELSE IF ~ingredients.ok THEN Unhealthy(ingredients.error)
    ELSE [status |-> "healthy", error |-> "", connected |-> listing.ok,
          available |-> \E name \in listing.models : Includes(name, embeddingModel),
          recipes |-> Len(recipes.db), ingredients |-> Len(ingredients.db),
          recipeQueries |-> Cardinality(DOMAIN recipeCache),
          ingredientQueries |-> Cardinality(DOMAIN ingredientCache)]

\* getHealth(): the listing, then the two catalog loads, inside one try
getHealth(listing, recipes, ingredients) ==
    IF ~listing.ok THEN Unhealthy(listing.error)
    ELSE IF ~recipes.ok THEN Unhealthy(recipes.error)
    ELSE IF ~ingredients.ok THEN Unhealthy(ingredients.error)
    ELSE [status |-> "healthy", error |-> "", connected |-> TRUE,
          available |-> \E name \in listing.models : Includes(name, embeddingModel),
          recipes |-> Len(recipes.db), ingredients |-> Len(ingredients.db),
          recipeQueries |-> Cardinality(DOMAIN recipeCache),
          ingredientQueries |-> Cardinality(DOMAIN ingredientCache)]

\* GET /health: 200 when the status is healthy, 503 otherwise
GetHealth ==
    /\ probe.op = "health"
    /\ ~probe.done
    /\ LET health == getHealth(probe.listing, probe.recipes, probe.ingredients)
       IN  probe' = [probe EXCEPT !.done = TRUE,
                                  !.status = health.status,
                                  !.statusCode = IF health.status = "healthy" THEN 200 ELSE 503,
                                  !.health = health]
    /\ UNCHANGED <<now, recipeCache, ingredientCache, timers, reqs, event,
                   lastStore, cleared, answered>>

HealthNext == GetHealth

HealthSpec == HealthInit /\ [][HealthNext]_vars

HealthDone == probe.op = "health" /\ probe.done

\* C19: health reports healthy only if the embedding provider is
\* reachable: when the model listing fails the status is unhealthy.
C19_HealthyOnlyIfReachable ==
    (HealthDone /\ ~probe.listing.ok) => (probe.status = "unhealthy" /\ probe.statusCode = 503)

\* the listing failed although both catalogs load and the caches are warm
C19_ProviderDownCatalogsFine ==
    /\ HealthDone
    /\ ~probe.listing.ok
    /\ probe.recipes.ok
    /\ probe.ingredients.ok
    /\ DOMAIN recipeCache # {}
    /\ probe.status = "unhealthy"

\* C20: when the embedding provider is reachable the status is healthy,
\* whatever the catalog loads answer and whatever the caches hold.
C20_CatalogsInformational ==
    (HealthDone /\ probe.listing.ok) => (probe.status = "healthy" /\ probe.statusCode = 200)

(***************************************************************************)
(* Properties of the HTTP answers.                                         *)
(***************************************************************************)
\* a request the interface does not allow: the query is not a string of at
\* least 3 characters, or the limit is not an integer in 1..50
InvalidRequest(q) ==
    \/ ~(q.query.t = "string" /\ Len(q.query.s) >= 3)
    \/ ~(\E k \in 1..50 : IsWhole(q.limit, k))

\* C21: an invalid request is answered 400, never 500 or 200, and a
\* failure of the embedding call or of the catalog load is answered 500,
\* never 400 or 200.
C21_FailuresDistinguishable ==
    event.kind = "response" =>
        /\ (InvalidRequest(event.req) => event.status = 400)
        /\ (LastStep(event.log) \in {"embedFail", "loadFail"} => event.status = 500)

RECURSIVE Count(_, _)
Count(log, step) ==
    IF log = <<>> THEN 0
    ELSE (IF Head(log) = step THEN 1 ELSE 0) + Count(Tail(log), step)

OnceAtMost(log) == Count(log, "embedCall") <= 1 /\ Count(log, "loadCall") <= 1

\* C22: a search calls the embedding provider at most once and loads the
\* catalog at most once, whether it succeeds or fails, and a search served
\* from the cache does neither.
C22_NoRetry ==
    /\ \A p \in BagToSet(reqs) : OnceAtMost(p.log)
    /\ OnceAtMost(event.log)
    /\ Hit => Count(event.log, "embedCall") = 0 /\ Count(event.log, "loadCall") = 0

\* a search has failed after its one embedding call
C22_FailedAfterOneCall ==
    /\ event.kind = "response"
    /\ event.status = 500
    /\ LastStep(event.log) = "embedFail"
    /\ Count(event.log, "embedCall") = 1

(***************************************************************************)
(* Further properties of the ranking.                                      *)
(***************************************************************************)
\* C23: a search on a catalog of zero entries succeeds and returns an
\* empty result sequence (count 0), whatever the query, limit and filter.
C23_EmptyCatalogEmptyResult ==
    (probe.op = "rank" /\ probe.catalog = <<>>)
      => IF probe.done THEN probe.results = <<>> ELSE ENABLED RankProbe

\* an empty catalog has been searched with a filter and a limit of 50
C23_EmptySearched ==
    /\ Ranked
    /\ probe.catalog = <<>>
    /\ probe.filter.def
    /\ IsWhole(probe.limit, 50)
    /\ probe.results = <<>>

\* the catalog entries whose embedding is the query vector
Identical == {i \in 1..Len(probe.catalog) : probe.catalog[i].embedding = probe.queryEmbedding}

\* C24: when the query vector is the embedding of one catalog entry that
\* matches the filter, that entry is first in the result and its reported
\* similarity is 100.0.
C24_IdenticalRankedFirst ==
    Ranked =>
        \A i \in Identical :
            (Identical = {i} /\ i \in Matching)
            => /\ probe.results # <<>>
               /\ probe.results[1].id = probe.catalog[i].id
               /\ probe.results[1].similarity = [nan |-> FALSE, x10 |-> 1000]

\* C25: every reported similarity lies in the closed range [0, 100].
C25_SimilarityInRange ==
    Ranked =>
        \A k \in 1..Len(probe.results) :
            /\ ~probe.results[k].similarity.nan
            /\ probe.results[k].similarity.x10 >= 0
            /\ probe.results[k].similarity.x10 <= 1000

(***************************************************************************)
(* Properties of the cache entries.                                        *)
(***************************************************************************)
\* requests with the same collection, query text, limit and filter
SameInputs(q, r) ==
    /\ q.coll = r.coll
    /\ q.query = r.query
    /\ q.limit = r.limit
    /\ q.filter = r.filter

\* C31: a result served from the cache is read from an entry that a request
\* with the same collection, query text, limit and filter stored: requests
\* that differ in one of them never share an entry.
C31_HitFromSameInputs ==
    Hit => SameInputs(Cache(event.req.coll)[event.req.cacheKey].by, event.req)

\* the cache entries: collection and key
Entries == ({"recipes"} \X DOMAIN recipeCache) \cup ({"ingredients"} \X DOMAIN ingredientCache)

\* C32: a cache hit leaves both caches and the pending expiry timers as they
\* were, and every entry keeps the expiry its store gave it: the timer due
\* cacheTimeout after the entry was stored is pending as long as the entry
\* is there.
C32_HitLeavesCacheUnchanged ==
    /\ [][(event'.kind = "response" /\ event'.fromCache)
            => /\ recipeCache' = recipeCache
               /\ ingredientCache' = ingredientCache
               /\ timers' = timers]_vars
    /\ [](\A e \in Entries :
            [coll |-> e[1], key |-> e[2], due |-> Cache(e[1])[e[2]].at + cacheTimeout]
                \in timers)

\* an entry stored earlier is read while the timer of its store is pending
C32_ReadBeforeExpiry ==
    /\ Hit
    /\ Cache(event.req.coll)[event.req.cacheKey].at < now
    /\ \E t \in timers :
          /\ t.coll = event.req.coll
          /\ t.key = event.req.cacheKey
          /\ t.due = Cache(event.req.coll)[event.req.cacheKey].at + cacheTimeout

\* the entry of key in the cache of coll is the one stored at time a
Stored(coll, key, a) == key \in DOMAIN Cache(coll) /\ Cache(coll)[key].at = a

\* the collections and keys under which the accepted requests store
StoreKeys == {<<q.coll, q.cacheKey>> : q \in {r \in SvcRequests : r.verdict = "ok"}}

\* the stores whose expiry the clock of the model reaches
Expiring == 0..(MaxTime - cacheTimeout)

\* C33: every entry a search stores is eventually removed, by an expiry
\* timer or by clearCache; and when from some time on no search is in
\* flight, both caches eventually become empty and stay empty.
C33_EveryEntryRemoved ==
    /\ \A e \in StoreKeys : \A a \in Expiring :
          Stored(e[1], e[2], a) ~> ~Stored(e[1], e[2], a)
    /\ (<>[](reqs = EmptyBag) /\ [](\A e \in Entries : Cache(e[1])[e[2]].at \in Expiring))
          => <>[](Entries = {})

\* searches were answered, and the timers have since emptied both caches
C33_EmptiedByTimers ==
    /\ answered # EmptyMap
    /\ cleared = {}
    /\ now > 0
    /\ timers = {}
    /\ Entries = {}
    /\ reqs = EmptyBag

(***************************************************************************)
(* Chat: POST /api/chat/message (ChatController.sendMessage), the MCP      *)
(* client and the tiered Ollama router.  The chat world is the record      *)
(* probe: the router's GPU instance, the messages the MCP server holds,    *)
(* and the one request being served with the calls it has completed.       *)
(* Every await of the handler is a step; the outcome of the awaited call   *)
(* is the step's input.  Costs are counted in units of 0.00001 dollars.    *)
(***************************************************************************)
MaxChats == 2

upperCaseLetters == "ABCDEFGHIJKLMNOPQRSTUVWXYZ"

lowerCaseLetters == "abcdefghijklmnopqrstuvwxyz"

CharAt(s, i) == SubSeq(s, i, i)

LowerChar(c) ==
    IF \E k \in 1..26 : CharAt(upperCaseLetters, k) = c
    THEN CharAt(lowerCaseLetters, CHOOSE k \in 1..26 : CharAt(upperCaseLetters, k) = c)
    ELSE c

RECURSIVE LowerFrom(_, _)
LowerFrom(s, i) ==
    IF i > Len(s) THEN "" ELSE LowerChar(CharAt(s, i)) \o LowerFrom(s, i + 1)

\* message.toLowerCase()
toLowerCase(s) == LowerFrom(s, 1)

\* \s and \w of a regular expression, on lower-case text
IsSpace(c) == c \in {" ", "\t", "\n"}

IsWord(c) == Includes("abcdefghijklmnopqrstuvwxyz0123456789_", c)

RECURSIVE SpacesEnd(_, _)
SpacesEnd(s, i) == IF i <= Len(s) /\ IsSpace(CharAt(s, i)) THEN SpacesEnd(s, i + 1) ELSE i

RECURSIVE WordEnd(_, _)
WordEnd(s, i) == IF i <= Len(s) /\ IsWord(CharAt(s, i)) THEN WordEnd(s, i + 1) ELSE i

RECURSIVE NonSpaceEnd(_, _)
NonSpaceEnd(s, i) ==
    IF i <= Len(s) /\ ~IsSpace(CharAt(s, i)) THEN NonSpaceEnd(s, i + 1) ELSE i

\* The pieces of the three patterns of extractIngredient.  A position is the
\* index of the next character to match, 0 when the match has failed.
Lit(s, i, lit) ==
    IF i # 0 /\ i + Len(lit) - 1 <= Len(s) /\ SubSeq(s, i, i + Len(lit) - 1) = lit
    THEN i + Len(lit) ELSE 0

\* \s+
Spaces(s, i) == IF i # 0 /\ SpacesEnd(s, i) > i THEN SpacesEnd(s, i) ELSE 0

\* (\w+) at the end of a pattern: the longest run of word characters
Capture(s, i) == IF i # 0 /\ WordEnd(s, i) > i THEN SubSeq(s, i, WordEnd(s, i) - 1) ELSE ""

\* (?:<lit>\s+)?(\w+): with the optional group first, without it otherwise
OptCapture(s, i, lit) ==
    LET j == Spaces(s, Lit(s, i, lit))
    IN  IF Capture(s, j) # "" THEN Capture(s, j) ELSE Capture(s, i)

\* /do\s+(?:i|we)\s+have\s+(?:any\s+)?(\w+)/i matched at position i
DoIHave(s, i) ==
    LET j == Spaces(s, Lit(s, i, "do"))
        k == IF Lit(s, j, "i") # 0 THEN Lit(s, j, "i") ELSE Lit(s, j, "we")
    IN  OptCapture(s, Spaces(s, Lit(s, Spaces(s, k), "have")), "any")

\* /is\s+there\s+(?:any\s+)?(\w+)/i matched at position i
IsThere(s, i) ==
    OptCapture(s, Spaces(s, Lit(s, Spaces(s, Lit(s, i, "is")), "there")), "any")

\* /check\s+(?:for\s+)?(\w+)/i matched at position i
CheckFor(s, i) == OptCapture(s, Spaces(s, Lit(s, i, "check")), "for")

\* the patterns array, in its order
patterns == <<"do i have", "is there", "check">>

\* the capture of a pattern matched at position i, "" when it does not match
MatchAt(pattern, s, i) ==
    CASE pattern = "do i have" -> DoIHave(s, i)
      [] pattern = "is there" -> IsThere(s, i)
      [] pattern = "check" -> CheckFor(s, i)

\* message.match(pattern)[1]: the capture of the leftmost match, "" for no match
Match(pattern, s) ==
    LET at == {i \in 1..Len(s) : MatchAt(pattern, s, i) # ""}
    IN  IF at = {} THEN ""
        ELSE MatchAt(pattern, s, CHOOSE i \in at : \A j \in at : i <= j)

\* the loop over the patterns from the k-th on: the first one that matches
RECURSIVE FirstMatch(_, _)
FirstMatch(s, k) ==
    IF k > Len(patterns) THEN ""
    ELSE IF Match(patterns[k], s) # "" THEN Match(patterns[k], s)
    ELSE FirstMatch(s, k + 1)

\* extractIngredient(message): the capture in lower case, null ("") if no
\* pattern matches
extractIngredient(message) == FirstMatch(toLowerCase(message), 1)

inventoryKeywords ==
    {"do i have", "do we have", "is there", "check inventory", "check stock", "in stock",
     "available", "how much", "enough"}

recipeKeywords ==
    {"recipe", "cocktail", "drink", "make", "mix", "what can i make", "suggest", "recommend"}

detectInventoryQuery(message) ==
    \E keyword \in inventoryKeywords : Includes(toLowerCase(message), keyword)

detectRecipeQuery(message) ==
    \E keyword \in recipeKeywords : Includes(toLowerCase(message), keyword)

commonWords ==
    {"what", "can", "i", "make", "with", "using", "have", "got", "the", "a", "an", "and", "or"}

\* s.split(/\s+/) without the empty strings, which the length filter drops
RECURSIVE SplitFrom(_, _)
SplitFrom(s, i) ==
    IF i > Len(s) THEN <<>>
    ELSE IF IsSpace(CharAt(s, i)) THEN SplitFrom(s, SpacesEnd(s, i))
    ELSE <<SubSeq(s, i, NonSpaceEnd(s, i) - 1)>> \o SplitFrom(s, NonSpaceEnd(s, i))

LongUncommon(word) == Len(word) > 3 /\ word \notin commonWords

extractIngredients(message) == SelectSeq(SplitFrom(toLowerCase(message), 1), LongUncommon)

\* parts.join(sep)
RECURSIVE Join(_, _)
Join(parts, sep) ==
    IF parts = <<>> THEN ""
    ELSE IF Len(parts) = 1 THEN parts[1]
    ELSE parts[1] \o sep \o Join(Tail(parts), sep)

NonEmpty(c) == c # ""

(***************************************************************************)
(* The request body and the validation of sendMessage                      *)
(***************************************************************************)
ChatBody(familyId, userId, message, sessionId, measurementSystem) ==
    [familyId |-> familyId, userId |-> userId, message |-> message,
     sessionId |-> sessionId, measurementSystem |-> measurementSystem]

measurementSystems == {JsStr("imperial"), JsStr("metric"), JsStr("both")}

\* the validation without its measurementSystem check
ValidateChatFieldsOnly(body) ==
    IF ~Truthy(body.familyId) \/ ~Truthy(body.userId) \/ ~Truthy(body.message)
    THEN "Missing required fields: familyId, userId, message"
    ELSE ""

\* the message of the 400 answer, "" when the body passes both checks
ValidateChat(body) ==
    IF ~Truthy(body.familyId) \/ ~Truthy(body.userId) \/ ~Truthy(body.message)
    THEN "Missing required fields: familyId, userId, message"
    ELSE IF ~Truthy(body.measurementSystem) \/ body.measurementSystem \notin measurementSystems
    THEN "Missing or invalid measurementSystem. Must be one of: imperial, metric, both"
    ELSE ""

\* the values generateSessionId can return
FreshIds == {"session_1_a", "session_2_b"}

Family == JsStr("test-family-001")

User == JsStr("test-user-001")

ChatBodies ==
    {ChatBody(Family, User, JsStr("Hello! What kind of bartender are you?"),
              JsUndefined, JsUndefined),
     ChatBody(Family, User, JsStr("Hello! What kind of bartender are you?"),
              JsUndefined, JsStr("metric")),
     ChatBody(Family, User, JsStr("Do I have any vodka to make a drink?"),
              JsStr("session-123"), JsStr("imperial")),
     ChatBody(Family, User, JsStr("how much rum"), JsStr(""), JsStr("both")),
     ChatBody(JsUndefined, User, JsStr("I love margaritas"), JsStr("session-123"),
              JsStr("metric")),
     ChatBody(Family, JsStr(""), JsStr("I love margaritas"), JsUndefined, JsStr("metric")),
     ChatBody(Family, User, JsStr(""), JsStr("session-123"), JsStr("metric")),
     ChatBody(Family, User, JsStr("I love margaritas"), JsStr("session-123"),
              JsStr("kelvin")),
     ChatBody(Family, User, JsNum(7), JsStr("session-123"), JsStr("metric"))}

\* what lines 63, 64, 70 and 80 compute from the message
Analyse(message) ==
    [needsInventoryCheck |-> detectInventoryQuery(message),
     needsRecipeLookup |-> detectRecipeQuery(message),
     ingredient |-> extractIngredient(message),
     ingredients |-> extractIngredients(message)]

Analysed == [message \in {body.message.s : body \in ChatBodies} |-> Analyse(message)]

(***************************************************************************)
(* The router: instances, selection, prompt                                *)
(***************************************************************************)
model == "cocktail-bartender:latest"

\* this.gpuInstance is null without OLLAMA_GPU_BASE_URL
Null == [type |-> "null", available |-> FALSE]

cpuInstance == [type |-> "cpu", available |-> TRUE]

gpuEstimatedCost == 10

cpuEstimatedCost == 1

fallbackEstimatedCost == 1

\* the selection without the subscription's state
selectInstanceByTierOnly(subscriptionTier, gpuInstance) ==
    IF /\ subscriptionTier.tier = "premium"
       /\ gpuInstance # Null /\ gpuInstance.available
    THEN gpuInstance
    ELSE cpuInstance

selectInstance(subscriptionTier, gpuInstance) ==
    IF /\ subscriptionTier.tier = "premium"
       /\ subscriptionTier.subscriptionActive
       /\ gpuInstance # Null /\ gpuInstance.available
    THEN gpuInstance
    ELSE cpuInstance

basePrompt == "You are a professional mixologist and cocktail expert."

buildSystemPrompt(prompt, context, measurementSystem) ==
    LET units == IF measurementSystem = JsStr("imperial")
                 THEN "\n\nIMPORTANT: Provide all measurements in imperial units."
                 ELSE IF measurementSystem = JsStr("both")
                 THEN "\n\nIMPORTANT: Provide all measurements in both metric and imperial units."
                 ELSE "\n\nIMPORTANT: Provide all measurements in metric units."
    IN  IF context # ""
        THEN basePrompt \o units \o "\n\nContext: " \o context
                        \o "\n\nUser: " \o prompt \o "\n\nMixologist:"
        ELSE basePrompt \o units \o "\n\nUser: " \o prompt \o "\n\nMixologist:"

\* the outcomes of GET /api/tags on the GPU instance
TagListings ==
    {[ok |-> FALSE, models |-> <<>>],
     [ok |-> TRUE, models |-> <<>>],
     [ok |-> TRUE, models |-> <<"llama3:8b">>],
     [ok |-> TRUE, models |-> <<"llama3:8b", model>>]}

\* the outcomes of GET /families/{id}/subscription on the main app
SubscriptionReplies ==
    {[ok |-> FALSE, subscriptionTier |-> JsUndefined, subscriptionActive |-> "undefined"],
     [ok |-> TRUE, subscriptionTier |-> JsUndefined, subscriptionActive |-> "undefined"],
     [ok |-> TRUE, subscriptionTier |-> JsStr("free"), subscriptionActive |-> "true"],
     [ok |-> TRUE, subscriptionTier |-> JsStr("premium"), subscriptionActive |-> "true"],
     [ok |-> TRUE, subscriptionTier |-> JsStr("premium"), subscriptionActive |-> "undefined"],
     [ok |-> TRUE, subscriptionTier |-> JsStr("premium"), subscriptionActive |-> "false"]}

\* the lookup whose failure defaults to the premium tier
getFamilySubscriptionTierPremiumOnError(reply) ==
    IF ~reply.ok THEN [tier |-> "premium", subscriptionActive |-> TRUE]
    ELSE [tier |-> IF Truthy(reply.subscriptionTier) THEN reply.subscriptionTier.s ELSE "free",
          subscriptionActive |-> reply.subscriptionActive # "false"]

\* lines 283-304: the tier of the family, free and active when the main app
\* does not answer
getFamilySubscriptionTier(reply) ==
    IF ~reply.ok THEN [tier |-> "free", subscriptionActive |-> TRUE]
    ELSE [tier |-> IF Truthy(reply.subscriptionTier) THEN reply.subscriptionTier.s ELSE "free",
          subscriptionActive |-> reply.subscriptionActive # "false"]

\* response.data.response of an Ollama instance
Reply(type) == "Cheers from the " \o type

(***************************************************************************)
(* The state of the chat world                                             *)
(***************************************************************************)
NoBody == ChatBody(JsUndefined, JsUndefined, JsUndefined, JsUndefined, JsUndefined)

NoResult == [response |-> "", instanceType |-> "", estimatedCost |-> 0]

NoResponse ==
    [status |-> 0, success |-> FALSE, message |-> "", error |-> "",
     sessionId |-> JsUndefined, conversationId |-> JsUndefined, context |-> "",
     tier |-> "", instanceType |-> "", estimatedCost |-> 0]

NoTier == [tier |-> "", subscriptionActive |-> FALSE]

\* a completed call: what was called, with which argument, session id and
\* prompt, and whether it succeeded
Call(step, arg, sessionId, prompt, ok) ==
    [step |-> step, arg |-> arg, sessionId |-> sessionId, prompt |-> prompt, ok |-> ok]

\* the module is loaded: the router is constructed, no request has arrived
ChatStart(gpuInstance) ==
    [op |-> "chat", gpuInstance |-> gpuInstance,
     checking |-> gpuInstance # Null,
     conversations |-> <<>>, served |-> 0, pc |-> "idle", body |-> NoBody,
     activeSessionId |-> JsUndefined, contextParts |-> <<>>, mcpContext |-> "",
     additionalContext |-> "", fullContext |-> "", subscriptionTier |-> NoTier,
     systemPrompt |-> "", instance |-> Null, result |-> NoResult, calls |-> <<>>,
     response |-> NoResponse]

ChatInit ==
    /\ Quiet
    /\ probe \in {ChatStart(gpuInstance) :
                    gpuInstance \in {Null, [type |-> "gpu", available |-> FALSE]}}

Chat(next) ==
    /\ probe' = next
    /\ UNCHANGED <<now, recipeCache, ingredientCache, timers, reqs, event,
                   lastStore, cleared, answered>>

Called(p, call) == [p EXCEPT !.calls = Append(@, call)]

\* res.status(status).json({success: false, message, error})
Refuse(p, status, message, error) ==
    [p EXCEPT !.pc = "idle",
              !.response = [NoResponse EXCEPT !.status = status, !.message = message,
                                              !.error = error]]

\* the catch of sendMessage
Failed(p, error) == Refuse(p, 500, "Failed to process chat message", error)

\* lines 27-48: validation, then the session id
SendMessage(body) ==
    /\ probe.op = "chat"
    /\ probe.pc = "idle"
    /\ probe.served < MaxChats
    /\ LET p == [ChatStart(probe.gpuInstance) EXCEPT
                    !.checking = probe.checking,
                    !.conversations = probe.conversations, !.served = probe.served + 1,
                    !.body = body]
       IN  IF ValidateChat(body) # ""
           THEN Chat(Refuse(p, 400, ValidateChat(body), ""))
           ELSE \E fresh \in FreshIds :
                  Chat([p EXCEPT !.pc = "storeUser",
                                 !.activeSessionId = IF Truthy(body.sessionId)
                                                     THEN body.sessionId
                                                     ELSE JsStr(fresh)])

\* MCPClient.storeMessage: a failed post is logged and swallowed.  A stored
\* message is kept as its session, its role and the number of its request.
storeMessage(p, role, sessionId, ok) ==
    LET q == Called(p, Call("storeMessage", role, sessionId, "", ok))
    IN  IF ok
        THEN [q EXCEPT !.conversations =
                           Append(@, [sessionId |-> sessionId, role |-> role,
                                      chat |-> p.served])]
        ELSE q

\* lines 50-57
StoreUserMessage(ok) ==
    /\ probe.op = "chat"
    /\ probe.pc = "storeUser"
    /\ Chat([storeMessage(probe, "user", probe.activeSessionId, ok)
                EXCEPT !.pc = "history"])

\* lines 87-91, up to the subscription lookup
Combine(p) ==
    [p EXCEPT !.fullContext = Join(SelectSeq(<<p.mcpContext, p.additionalContext>>, NonEmpty),
                                   "\n\n"),
              !.pc = "subscription"]

\* lines 79-85: the recipe lookup is awaited when the message asks for recipes
Recipes(p) ==
    IF Analysed[p.body.message.s].needsRecipeLookup THEN [p EXCEPT !.pc = "findRecipes"]
    ELSE Combine(p)

\* lines 60-77, after buildContext has returned: the detection, then the
\* inventory check when an ingredient was extracted
Detect(p) ==
    LET q == [p EXCEPT !.mcpContext = Join(p.contextParts, "\n\n")]
    IN  IF q.body.message.t # "string"
        THEN Failed(q, "message.toLowerCase is not a function")
        ELSE IF Analysed[q.body.message.s].needsInventoryCheck
                /\ Analysed[q.body.message.s].ingredient # ""
        THEN [q EXCEPT !.pc = "checkInventory"]
        ELSE Recipes(q)

\* the replies of the MCP server to a resource read or a tool call: none
\* (readResource and callTool return null), a payload without the expected
\* content, the expected content, a payload of the wrong shape
HistoryReplies == {"fail", "data", "malformed"}

ResourceReplies == {"fail", "data"}

ToolReplies == {"fail", "message", "data"}

RecipeReplies == {"fail", "data"}

\* buildContext, getSessionHistory: a history that cannot be mapped throws
\* into buildContext's catch, which returns the parts collected so far
GetSessionHistory(reply) ==
    /\ probe.op = "chat"
    /\ probe.pc = "history"
    /\ LET uri == "conversations://session/" \o probe.activeSessionId.s \o "@"
                    \o probe.body.familyId.s
           p == Called(probe, Call("getSessionHistory", uri, probe.activeSessionId, "",
                                   reply # "fail"))
       IN  CASE reply = "fail" -> Chat([p EXCEPT !.pc = "preferences"])
             [] reply = "data" ->
                  Chat([p EXCEPT !.pc = "preferences",
                                 !.contextParts =
                                     Append(@, "Recent Conversation:\nuser: I love margaritas")])
             [] reply = "malformed" -> Chat(Detect(p))

\* buildContext, getUserPreferences
GetUserPreferences(reply) ==
    /\ probe.op = "chat"
    /\ probe.pc = "preferences"
    /\ LET uri == "preferences://user/" \o probe.body.userId.s \o "@" \o probe.body.familyId.s
           p == Called(probe, Call("getUserPreferences", uri, JsUndefined, "", reply # "fail"))
       IN  Chat([p EXCEPT !.pc = "inventory",
                          !.contextParts =
                              IF reply = "data"
                              THEN Append(@, "User Preferences:\nExperience Level: beginner")
                              ELSE @])

\* buildContext, getInventory; then lines 62-77
GetInventory(reply) ==
    /\ probe.op = "chat"
    /\ probe.pc = "inventory"
    /\ LET uri == "inventory://family/" \o probe.body.familyId.s \o "/ingredients"
           p == Called(probe, Call("getInventory", uri, JsUndefined, "", reply # "fail"))
       IN  Chat(Detect([p EXCEPT !.contextParts =
                                     IF reply = "data"
                                     THEN Append(@, "Available Ingredients:\nGin (500ml)")
                                     ELSE @]))

\* lines 72-76; then lines 79-91
CheckInventory(reply) ==
    /\ probe.op = "chat"
    /\ probe.pc = "checkInventory"
    /\ LET p == Called(probe, Call("checkInventory", Analysed[probe.body.message.s].ingredient,
                                   JsUndefined, "", reply # "fail"))
       IN  Chat(Recipes([p EXCEPT !.additionalContext =
                                      IF reply = "data"
                                      THEN @ \o "\nInventory Check: {\"inStock\":true}"
                                      ELSE @]))

\* lines 80-84; then lines 87-91
FindRecipes(reply) ==
    /\ probe.op = "chat"
    /\ probe.pc = "findRecipes"
    /\ LET p == Called(probe, Call("findRecipes",
                                   Join(Analysed[probe.body.message.s].ingredients, ","),
                                   JsUndefined, "", reply # "fail"))
       IN  Chat(Combine([p EXCEPT !.additionalContext =
                                      IF reply = "data"
                                      THEN @ \o "\nAvailable Recipes: {\"recipes\":[\"Gimlet\"]}"
                                      ELSE @]))

\* lines 91-102 and generate up to its post: the tier, the prompt, the
\* instance selected with the GPU flag as it is now
GetFamilySubscriptionTier(reply) ==
    /\ probe.op = "chat"
    /\ probe.pc = "subscription"
    /\ LET p == Called(probe, Call("getFamilySubscriptionTier", probe.body.familyId.s,
                                   JsUndefined, "", reply.ok))
           subscriptionTier == getFamilySubscriptionTier(reply)
       IN  Chat([p EXCEPT !.subscriptionTier = subscriptionTier,
                          !.systemPrompt = buildSystemPrompt(p.body.message.s, p.fullContext,
                                                             p.body.measurementSystem),
                          !.instance = selectInstance(subscriptionTier, p.gpuInstance),
                          !.pc = "generate"])

\* generate: the post to the selected instance answers
GenerateOk ==
    /\ probe.op = "chat"
    /\ probe.pc = "generate"
    /\ LET p == Called(probe, Call("generate", probe.instance.type, JsUndefined,
                                   probe.systemPrompt, TRUE))
       IN  Chat([p EXCEPT !.result = [response |-> Reply(p.instance.type),
                                      instanceType |-> p.instance.type,
                                      estimatedCost |-> IF p.instance.type = "gpu"
                                                        THEN gpuEstimatedCost
                                                        ELSE cpuEstimatedCost],
                          !.pc = "storeAssistant"])

\* generate without the fallback of its catch
GenerateFailRethrown ==
    /\ probe.op = "chat"
    /\ probe.pc = "generate"
    /\ Chat(Failed(Called(probe, Call("generate", probe.instance.type, JsUndefined,
                                      probe.systemPrompt, FALSE)),
                   "generation failed"))

\* generate marking the GPU instance unavailable when its post fails
GenerateFailMarksGpuDown ==
    /\ probe.op = "chat"
    /\ probe.pc = "generate"
    /\ LET p == Called(probe, Call("generate", probe.instance.type, JsUndefined,
                                   probe.systemPrompt, FALSE))
       IN  IF p.instance.type = "gpu" /\ cpuInstance.available
           THEN Chat([p EXCEPT !.pc = "generateOnCPU", !.gpuInstance.available = FALSE])
           ELSE Chat(Failed(p, "generation failed"))

\* generate: the post fails or times out; the catch of generate
GenerateFail ==
    /\ probe.op = "chat"
    /\ probe.pc = "generate"
    /\ LET p == Called(probe, Call("generate", probe.instance.type, JsUndefined,
                                   probe.systemPrompt, FALSE))
       IN  IF p.instance.type = "gpu" /\ cpuInstance.available
           THEN Chat([p EXCEPT !.pc = "generateOnCPU"])
           ELSE Chat(Failed(p, "generation failed"))

\* generateOnCPU: the post to the CPU instance answers
GenerateOnCPUOk ==
    /\ probe.op = "chat"
    /\ probe.pc = "generateOnCPU"
    /\ LET p == Called(probe, Call("generateOnCPU", cpuInstance.type, JsUndefined,
                                   probe.systemPrompt, TRUE))
       IN  Chat([p EXCEPT !.result = [response |-> Reply(cpuInstance.type),
                                      instanceType |-> "cpu",
                                      estimatedCost |-> fallbackEstimatedCost],
                          !.pc = "storeAssistant"])

\* generateOnCPU: the post fails; nothing catches it before sendMessage
GenerateOnCPUFail ==
    /\ probe.op = "chat"
    /\ probe.pc = "generateOnCPU"
    /\ Chat(Failed(Called(probe, Call("generateOnCPU", cpuInstance.type, JsUndefined,
                                      probe.systemPrompt, FALSE)),
                   "generation failed"))

\* res.json of line 115
Respond(p, sessionId) ==
    [p EXCEPT !.pc = "idle",
              !.response = [NoResponse EXCEPT
                               !.status = 200, !.success = TRUE,
                               !.message = p.result.response,
                               !.sessionId = sessionId,
                               !.conversationId = sessionId,
                               !.context = IF p.fullContext # "" THEN "enriched" ELSE "basic",
                               !.tier = p.subscriptionTier.tier,
                               !.instanceType = p.result.instanceType,
                               !.estimatedCost = p.result.estimatedCost]]

\* the answer sent without waiting for the store
StoreAssistantMessageUnawaited(ok) ==
    /\ probe.op = "chat"
    /\ probe.pc = "storeAssistant"
    /\ \/ /\ probe.response.status = 0
          /\ Chat([Respond(probe, probe.activeSessionId) EXCEPT !.pc = "storeAssistant"])
       \/ /\ probe.response.status = 200
          /\ Chat([storeMessage(probe, "assistant", probe.activeSessionId, ok) EXCEPT !.pc = "idle"])

\* the answer carrying the session id of the body
StoreAssistantMessageBodySession(ok) ==
    /\ probe.op = "chat"
    /\ probe.pc = "storeAssistant"
    /\ Chat(Respond(storeMessage(probe, "assistant", probe.activeSessionId, ok),
                    probe.body.sessionId))

\* lines 106-126: the assistant message is stored, then the answer is sent
StoreAssistantMessage(ok) ==
    /\ probe.op = "chat"
    /\ probe.pc = "storeAssistant"
    /\ Chat(Respond(storeMessage(probe, "assistant", probe.activeSessionId, ok),
                    probe.activeSessionId))

\* checkGPUAvailability: the flag is the model's presence in the listing,
\* false when the listing fails
checkGPUAvailability(p, listing) ==
    [p EXCEPT !.gpuInstance.available =
                  listing.ok /\ \E i \in 1..Len(listing.models) : listing.models[i] = model]

\* the check the constructor started completes
CheckGPUAvailability(listing) ==
    /\ probe.op = "chat"
    /\ probe.checking
    /\ Chat([checkGPUAvailability(probe, listing) EXCEPT !.checking = FALSE])

\* TieredOllamaRouter.healthCheck: the GPU instance is checked again
RouterHealthCheck(listing) ==
    /\ probe.op = "chat"
    /\ probe.gpuInstance # Null
    /\ Chat(checkGPUAvailability(probe, listing))

ChatNext ==
    \/ \E body \in ChatBodies : SendMessage(body)
    \/ \E ok \in BOOLEAN : StoreUserMessage(ok)
    \/ \E reply \in HistoryReplies : GetSessionHistory(reply)
    \/ \E reply \in ResourceReplies : GetUserPreferences(reply)
    \/ \E reply \in ResourceReplies : GetInventory(reply)
    \/ \E reply \in ToolReplies : CheckInventory(reply)
    \/ \E reply \in RecipeReplies : FindRecipes(reply)
    \/ \E reply \in SubscriptionReplies : GetFamilySubscriptionTier(reply)
    \/ GenerateOk
    \/ GenerateFail
    \/ GenerateOnCPUOk
    \/ GenerateOnCPUFail
    \/ \E ok \in BOOLEAN : StoreAssistantMessage(ok)
    \/ \E listing \in TagListings : CheckGPUAvailability(listing)
    \/ \E listing \in TagListings : RouterHealthCheck(listing)

ChatSpec == ChatInit /\ [][ChatNext]_vars

(***************************************************************************)
(* Claims about the chat flow                                              *)
(***************************************************************************)
Chatting == probe.op = "chat"

Calls(step) == {i \in 1..Len(probe.calls) : probe.calls[i].step = step}

\* lines 371-383 as the claim words them: the instance type chosen for a
\* tier under a GPU instance
Chosen(tier, gpuInstance) ==
    IF tier.tier = "premium" /\ tier.subscriptionActive
       /\ gpuInstance # Null /\ gpuInstance.available
    THEN "gpu" ELSE "cpu"

\* C26: a generation is first sent to the GPU instance exactly when, at the
\* moment of the selection, the tier is premium, the subscription is active
\* and the GPU instance is configured and marked available; in every other
\* case it is first sent to the CPU instance.
C26_GpuOnlyForActivePremium ==
    /\ [][(Chatting /\ probe.pc = "subscription" /\ probe'.pc = "generate")
            => probe'.instance.type = Chosen(probe'.subscriptionTier, probe.gpuInstance)]_vars
    /\ [](Chatting => \A i \in Calls("generate") : probe.calls[i].arg = probe.instance.type)

\* a generation of an active premium family has been sent to the GPU instance
C26_SentToGpu ==
    /\ Chatting
    /\ probe.subscriptionTier = [tier |-> "premium", subscriptionActive |-> TRUE]
    /\ \E i \in Calls("generate") : probe.calls[i].arg = "gpu"

GpuFailures == {i \in Calls("generate") : probe.calls[i].arg = "gpu" /\ ~probe.calls[i].ok}

CpuFailures ==
    {i \in Calls("generate") : probe.calls[i].arg = "cpu" /\ ~probe.calls[i].ok}
    \cup {i \in Calls("generateOnCPU") : ~probe.calls[i].ok}

\* C27: a failed GPU generation is followed by exactly one generation on the
\* CPU instance with the same prompt (in flight, or completed as the next
\* call); when that one succeeds the result and the answer report instanceType
\* cpu with the CPU cost; a failed CPU generation, first choice or fallback,
\* is the request's last call and the request is answered 500.
C27_GpuFailureFallsBackToCpu ==
    Chatting =>
        /\ \A i \in GpuFailures :
              IF i = Len(probe.calls)
              THEN probe.pc = "generateOnCPU" /\ probe.response.status = 0
              ELSE /\ probe.calls[i + 1].step = "generateOnCPU"
                   /\ probe.calls[i + 1].arg = "cpu"
                   /\ probe.calls[i + 1].prompt = probe.calls[i].prompt
        /\ Cardinality(Calls("generateOnCPU")) <= 1
        /\ \A j \in Calls("generateOnCPU") : j - 1 \in GpuFailures
        /\ \A j \in Calls("generateOnCPU") :
              probe.calls[j].ok
              => /\ probe.result.instanceType = "cpu"
                 /\ probe.result.estimatedCost = cpuEstimatedCost
                 /\ probe.response.status # 0
                    => /\ probe.response.status = 200
                       /\ probe.response.instanceType = "cpu"
                       /\ probe.response.estimatedCost = cpuEstimatedCost
        /\ \A i \in CpuFailures :
              /\ i = Len(probe.calls)
              /\ probe.pc = "idle"
              /\ probe.response.status = 500

\* a request was answered by the CPU instance after the GPU instance failed
C27_AnsweredByFallback ==
    /\ Chatting
    /\ GpuFailures # {}
    /\ probe.response.status = 200
    /\ probe.response.instanceType = "cpu"

\* the step of the response flow a call belongs to; the subscription lookup
\* opens the generation
FlowStep(call) ==
    CASE call.step = "storeMessage" -> IF call.arg = "user" THEN 1 ELSE 5
      [] call.step \in {"getSessionHistory", "getUserPreferences", "getInventory"} -> 2
      [] call.step \in {"checkInventory", "findRecipes"} -> 3
      [] OTHER -> 4

FlowSteps == {FlowStep(probe.calls[i]) : i \in 1..Len(probe.calls)}

C29_ChatWithoutMeasurementSystemServed ==
    ( /\ Chatting
      /\ probe.pc = "idle"
      /\ probe.response.status # 0
      /\ Truthy(probe.body.familyId)
      /\ Truthy(probe.body.userId)
      /\ probe.body.message.t = "string" /\ Truthy(probe.body.message)
      /\ probe.body.measurementSystem = JsUndefined
      /\ \A i \in 1..Len(probe.calls) : probe.calls[i].ok )
    => probe.response.status = 200

\* the session ids a request has used: in its stores, in its history lookup
\* and in its answer
SessionUses ==
    {probe.calls[i].sessionId : i \in Calls("storeMessage") \cup Calls("getSessionHistory")}
    \cup (IF probe.response.status = 200
          THEN {probe.response.sessionId, probe.response.conversationId}
          ELSE {})

\* C30 as stated: a request whose body has a sessionId uses exactly that id
\* for its stores, its history lookup and its answer; a request without one
\* uses one generated id for all of them.
C30_SessionContinuity ==
    Chatting =>
        IF probe.body.sessionId # JsUndefined
        THEN SessionUses \subseteq {probe.body.sessionId}
        ELSE /\ Cardinality(SessionUses) <= 1
             /\ SessionUses \subseteq {JsStr(fresh) : fresh \in FreshIds}

\* C30: a request whose body has a non-empty (truthy) sessionId uses exactly
\* that id for its stores, its history lookup and its answer; a request
\* without a sessionId, or with an empty one, uses one generated id for all
\* of them.
C30_SessionContinuityNonEmpty ==
    Chatting =>
        IF Truthy(probe.body.sessionId)
        THEN SessionUses \subseteq {probe.body.sessionId}
        ELSE /\ Cardinality(SessionUses) <= 1
             /\ SessionUses \subseteq {JsStr(fresh) : fresh \in FreshIds}

\* a request with a session id was answered under it after another request
\* was served under a generated id, both with stored messages
C30_SuppliedAfterGenerated ==
    /\ Chatting
    /\ probe.response.status = 200
    /\ probe.body.sessionId = JsStr("session-123")
    /\ probe.response.sessionId = JsStr("session-123")
    /\ \E i, j \in 1..Len(probe.conversations) :
          /\ i < j
          /\ probe.conversations[i].sessionId \in {JsStr(fresh) : fresh \in FreshIds}
          /\ probe.conversations[j] = [sessionId |-> JsStr("session-123"),
                                       role |-> "assistant", chat |-> 2]

\* the stored messages of the conversation store, by position
Messages == 1..Len(probe.conversations)

\* C34: in the conversation store every assistant message comes after the
\* user message of the same request in the same session, and a request
\* answered 500 has stored no assistant message.
C34_AssistantAfterUser ==
    Chatting =>
        /\ \A j \in Messages :
              probe.conversations[j].role = "assistant"
              => \E i \in 1..(j - 1) :
                    probe.conversations[i] =
                        [probe.conversations[j] EXCEPT !.role = "user"]
        /\ probe.response.status = 500
           => \A j \in Messages :
                 ~(/\ probe.conversations[j].role = "assistant"
                   /\ probe.conversations[j].chat = probe.served)

\* the calls made to the MCP server
McpSteps ==
    {"storeMessage", "getSessionHistory", "getUserPreferences", "getInventory",
     "checkInventory", "findRecipes"}

McpCalls == {i \in 1..Len(probe.calls) : probe.calls[i].step \in McpSteps}

\* C35: a request all of whose MCP calls failed, and whose generation
\* succeeded, is answered 200 with context basic; a request is answered 500
\* only when a generation on the CPU instance, first choice or fallback,
\* failed.
C35_McpFailuresNeverFail ==
    Chatting =>
        /\ ( /\ probe.pc = "idle"
             /\ probe.response.status \notin {0, 400}
             /\ \A i \in McpCalls : ~probe.calls[i].ok
             /\ CpuFailures = {} )
           => /\ probe.response.status = 200
              /\ probe.response.context = "basic"
        /\ probe.response.status = 500 => CpuFailures # {}

\* a body without one of the required fields, or without a measurement
\* system of the three
Lacking(body) ==
    \/ \E field \in {"familyId", "userId", "message"} :
          body[field] = JsUndefined \/ body[field] = JsStr("")
    \/ body.measurementSystem = JsUndefined
    \/ body.measurementSystem \notin {JsStr("imperial"), JsStr("metric"), JsStr("both")}

FailedLookups == {i \in Calls("getFamilySubscriptionTier") : ~probe.calls[i].ok}

\* C37: after a failed subscription lookup the family is free tier with an
\* active subscription and the request goes on: the CPU instance is selected,
\* no generation of the request is sent to the GPU instance, and the request
\* is answered 200 with tier free and instanceType cpu unless the generation
\* on the CPU instance fails.
C37_FailedLookupServedOnCpu ==
    (Chatting /\ FailedLookups # {})
    => /\ probe.subscriptionTier = [tier |-> "free", subscriptionActive |-> TRUE]
       /\ probe.instance = cpuInstance
       /\ \A i \in Calls("generate") : probe.calls[i].arg = "cpu"
       /\ Calls("generateOnCPU") = {}
       /\ probe.response.status = 0 => probe.pc \in {"generate", "storeAssistant"}
       /\ probe.response.status # 0
          => IF CpuFailures = {}
             THEN /\ probe.response.status = 200
                  /\ probe.response.tier = "free"
                  /\ probe.response.instanceType = "cpu"
             ELSE probe.response.status = 500

\* a request whose subscription lookup failed was answered by the CPU
\* instance while the GPU instance was marked available
C37_ServedOnCpuWithGpuUp ==
    /\ Chatting
    /\ FailedLookups # {}
    /\ probe.gpuInstance = [type |-> "gpu", available |-> TRUE]
    /\ probe.response.status = 200
    /\ probe.response.instanceType = "cpu"

\* the step of sendMessage that selects the instance
Selecting == Chatting /\ probe.pc = "subscription" /\ probe'.pc = "generate"

\* C38: the GPU flag is false when the router is constructed; a step that
\* changes it is a completed availability check, which touches nothing of the
\* request in progress; no step of a generation changes it, a failed one
\* included; while it is false every request, premium ones included, is
\* sent to the CPU instance, and while it is true an active premium request
\* is sent to the GPU instance first.
C38_FlagChangedOnlyByCheck ==
    /\ (Chatting => ~probe.gpuInstance.available)
    /\ [][(Chatting /\ probe'.gpuInstance # probe.gpuInstance)
            => /\ probe.gpuInstance # Null
               /\ probe' = [probe EXCEPT !.gpuInstance = probe'.gpuInstance,
                                         !.checking = probe'.checking]
               /\ \E listing \in TagListings :
                     probe'.gpuInstance = checkGPUAvailability(probe, listing).gpuInstance]_vars
    /\ [][(Chatting /\ probe.pc \in {"generate", "generateOnCPU"} /\ probe'.calls # probe.calls)
            => probe'.gpuInstance = probe.gpuInstance]_vars
    /\ [][(Selecting /\ ~probe.gpuInstance.available) => probe'.instance = cpuInstance]_vars
    /\ [][(Selecting /\ probe.gpuInstance.available
           /\ probe'.subscriptionTier = [tier |-> "premium", subscriptionActive |-> TRUE])
            => probe'.instance = probe.gpuInstance]_vars

\* the second request is an active premium one sent to the GPU instance,
\* whose generation failed, and the flag is still true
C38_FlagTrueAfterGpuFailure ==
    /\ Chatting
    /\ probe.served = 2
    /\ probe.subscriptionTier = [tier |-> "premium", subscriptionActive |-> TRUE]
    /\ GpuFailures # {}
    /\ probe.gpuInstance = [type |-> "gpu", available |-> TRUE]
====
